---- MODULE Spec2Model ----
(***************************************************************************)
(* Model of the yle areena kodi addon (plugin.video.areena):               *)
(*   - stream resolution (router.get_vod_stream_manifest and the two       *)
(*     provider resolvers in yle.py and kaltura.py),                       *)
(*   - the pagination loop router.get_extended_content,                    *)
(*   - the pure helpers they use.                                          *)
(* Python strings that the code takes apart (split, find, re.sub) are      *)
(* sequences of one-character strings; None is the sentinel sequence None. *)
(***************************************************************************)
EXTENDS Integers, Sequences, FiniteSets, TLC

\* ------------------------------------------------------------------ bounds
MaxIdLen == 5
MaxSources == 2
MaxTotal == 201
MaxServer == 201
MaxOffset == 2
MaxUrlLen == 5
MaxBuckets == 3
MaxPieces == 4
MaxEntries == 2
MaxSubEntries == 3
MaxSeasons == 2
MaxStampPieces == 4
MaxRenames == 1
MaxCacheCalls == 3
MaxInvocations == 3

\* ------------------------------------------------------- program constants
PageSize == 100
LiveProfile == 16231
DownloadProfile == 14441
VodProfile == 14471

VARIABLES
    pc,             \* position of the running request
    exc,            \* the exception that ended the request, "" when none
    requests,       \* calls of network.get_url_response, in order
    log_msgs,       \* messages passed to logger.log, in order
    debug,          \* the addon's "debug" setting is "true"
    yle_id,         \* get_vod_stream_manifest: parameter yle_id
    arg_kaltura_id, \* get_vod_stream_manifest: parameter kaltura_id as passed
    kaltura_id,     \* get_vod_stream_manifest: local kaltura_id
    mode,           \* playback mode
    manifest,       \* local manifest
    stream_format,  \* local stream_format
    subs,           \* local subs
    hls_res,        \* response of the yle preview api
    mpd_res,        \* response of the kaltura multirequest api
    vod_result,     \* value returned by get_vod_stream_manifest
    arg_offset,     \* get_extended_content: parameter offset as passed
    arg_total,      \* get_extended_content: parameter total as passed
    offset,         \* get_extended_content: local offset
    total,          \* get_extended_content: local total
    ctx,            \* get_extended_content: accumulated records
    server_total,   \* number of items the server holds (meta.count)
    media_data,     \* get_kaltura_id_or_none: parameter media_data
    media_id,       \* get_kaltura_id_or_none: returned value
    live_res,       \* response of the yle live player api
    live_result,    \* value returned by get_live_stream_manifest
    entries,        \* parsers: local json_data, the entries being parsed
    categories,     \* parsers: local categories, the list being built
    listing,        \* value returned by the parser that ran
    jwt_url,        \* extract_token: parameter url (jwt_url of its callers)
    api_tok,        \* the token extracted from url
    show_clips,     \* the addon's "show_clips" setting, as get_setting returns it
    seasons,        \* get_season_ids: the filters of the series page
    payload,        \* the seasons get_episodes has still to fetch
    stamp,          \* get_duration_seconds: parameter time_stamp
    stamp_seconds,  \* value returned by get_duration_seconds
    filename,       \* try_download_video: parameter and local filename
    filepath,       \* try_download_video: local filepath
    filesize,       \* try_download_video: local filesize
    renames,        \* names the user has entered in get_download_filepath
    effects,        \* calls to the kodi interface, the file system and
                    \* network.download_file, in order
    memcache,       \* the properties of the kodi home window, by name
    cache_calls,    \* calls of the functions of cache.py, in order
    cached_data,    \* value returned by the last cache.get_data
    inv,            \* add_data in concurrent invocations: position and locals
    main_params,    \* addon_areena_main: parameter param_string
    main_locale,    \* addon_areena_main: local locale, the language setting
    listings,       \* calls of kodi.create_listing, in order
    fetched_keys,   \* history: locale + param_string of the listings fetched
                    \* and stored since the cache was last erased
    served          \* invocations of the addon that have ended

commonVars == <<pc, exc, requests, log_msgs, debug>>
vodVars == <<yle_id, arg_kaltura_id, kaltura_id, mode, manifest, stream_format,
             subs, hls_res, mpd_res, vod_result>>
pageVars == <<arg_offset, arg_total, offset, total, ctx, server_total>>
routeVars == <<media_data, media_id>>
liveVars == <<live_res, live_result>>
episodeVars == <<show_clips, seasons, payload>>
listVars == <<entries, categories, listing, jwt_url, api_tok, episodeVars>>
durVars == <<stamp, stamp_seconds>>
dlVars == <<filename, filepath, filesize, renames, effects>>
cacheVars == <<memcache, cache_calls, cached_data, inv>>
mainVars == <<main_params, main_locale, listings, fetched_keys, served>>
extVars == <<durVars, dlVars, cacheVars, mainVars>>
vars == <<commonVars, vodVars, pageVars, routeVars, liveVars, listVars, extVars>>

\* ----------------------------------------------------------------- strings
None == <<"None">>
EmptyStr == <<>>

Min(a, b) == IF a < b THEN a ELSE b
\* the one element of a singleton: Only({e(x) : x \in {d}}) is e with x bound
\* to the value of d, evaluated once
Only(S) == CHOOSE x \in S : TRUE

Max(a, b) == IF a > b THEN a ELSE b

\* All strings over the alphabet chars of length at most n.
StringsUpTo(chars, n) == UNION {[1..k -> chars] : k \in 0..n}

\* not x, for x a string or None
Falsy(x) == x = None \/ x = EmptyStr

\* str.find(word): 0-based index of the first occurrence, -1 when absent
Find(string, word) ==
    LET hits == {i \in 0..(Len(string) - Len(word)) :
                    SubSeq(string, i + 1, i + Len(word)) = word}
    IN IF hits = {} THEN -1 ELSE CHOOSE i \in hits : \A j \in hits : i <= j

\* string[start:] for start >= 0
SliceFrom(string, start) == SubSeq(string, start + 1, Len(string))

\* str.split(sep) for a one-character separator
RECURSIVE Split(_, _)
Split(string, sep) ==
    LET i == Find(string, <<sep>>)
    IN IF i = -1 THEN <<string>>
       ELSE <<SubSeq(string, 1, i)>> \o Split(SliceFrom(string, i + 1), sep)

extract_suffix(word, string) ==
    LET start == Find(string, word) + Len(word)
    IN SliceFrom(string, start)

\* ----------------------------------------------------------------- logging
Log(m, a) == [msg |-> m, arg |-> a]

\* what logger.log hands to xbmc.log
xbmc_log == IF debug THEN log_msgs ELSE <<>>

\* the two messages get_url_response logs around a request that is answered
UrlLogs == <<Log("Accessing url", <<>>), Log("Response headers", <<>>)>>

\* ------------------------------------------- yle.get_kaltura_id_or_none
Host29 == <<"2", "9">>
Host55 == <<"5", "5">>
Host67 == <<"6", "7">>

Returned(v, logs) == [raised |-> "", value |-> v, logged |-> logs]
Raised(e, logs) == [raised |-> e, value |-> None, logged |-> logs]

\* the unknown provider falls back to the empty id instead of failing
get_kaltura_id_or_none_Swallow(md) ==
    IF Falsy(md) THEN Returned(EmptyStr, <<>>)
    ELSE LET media_info == Split(md, "-")
             media_host == media_info[1]
         IN IF media_host = Host29
            THEN IF Len(media_info) < 2
                 THEN Raised("IndexError", <<>>)
                 ELSE Returned(media_info[2], <<>>)
            ELSE Returned(EmptyStr,
                          IF media_host \in {Host55, Host67} THEN <<>>
                          ELSE <<Log("Unknown stream media type", md)>>)

get_kaltura_id_or_none(md) ==
    IF Falsy(md) THEN Returned(EmptyStr, <<>>)
    ELSE LET media_info == Split(md, "-")
             media_host == media_info[1]
         IN IF media_host = Host29
            THEN IF Len(media_info) < 2
                 THEN Raised("IndexError", <<>>)
                 ELSE Returned(media_info[2], <<>>)
            ELSE IF media_host \in {Host55, Host67}
            THEN Returned(EmptyStr, <<>>)
            ELSE Raised("UnboundLocalError",
                        <<Log("Unknown stream media type", md)>>)

\* ------------------------------------------------------ network requests
Req(api, id, limit, off) == [api |-> api, id |-> id, limit |-> limit, offset |-> off]

\* ------------------------------------------------- yle.get_stream_manifest
\* One of the two response shapes data.ongoing_ondemand / data.ongoing_event:
\* populated is FALSE for a missing key, null or {} (all falsy for "or").
EmptyShape == [populated |-> FALSE, manifest_url |-> None, media_id |-> None]

\* hls_res before the yle api has answered
NoHlsRes == [answered |-> FALSE, ongoing_ondemand |-> EmptyShape,
             ongoing_event |-> EmptyShape]

get_stream_manifest(site) ==
    LET json_data == IF site.ongoing_ondemand.populated
                     THEN site.ongoing_ondemand ELSE site.ongoing_event
        manifest_url == json_data.manifest_url
        md == json_data.media_id
    IN [manifest |-> manifest_url, route |-> get_kaltura_id_or_none(md)]

\* ------------------------------------- kaltura.get_hd_mpd_stream_manifest
Digits == {"0", "1", "2", "3", "4", "5", "6", "7", "8", "9"}

\* length of the match of [0-9][^,/]+, at the start of s, 0 when none
FlavorMatchLen(s) ==
    IF s = <<>> \/ s[1] \notin Digits THEN 0
    ELSE LET stops == {i \in 2..Len(s) : s[i] \in {",", "/"}}
         IN IF stops = {} THEN 0
            ELSE LET k == CHOOSE i \in stops : \A j \in stops : i <= j
                 IN IF k >= 3 /\ s[k] = "," THEN k ELSE 0

\* re.sub("[0-9][^,/]+,", "", s)
RECURSIVE StripFlavors(_)
StripFlavors(s) ==
    IF s = <<>> THEN <<>>
    ELSE LET m == FlavorMatchLen(s)
         IN IF m > 0 THEN StripFlavors(SliceFrom(s, m))
            ELSE <<Head(s)>> \o StripFlavors(Tail(s))

\* mpd_res before the kaltura api has answered
NoMpdRes == [answered |-> FALSE, has_sources |-> FALSE, sources |-> <<>>,
             has_captions |-> FALSE, playbackCaptions |-> <<>>]

Modes == {"live", "vod", "download"}

\* the profiles of vod and download exchanged
target_stream_Swapped(md) ==
    CASE md = "live" -> LiveProfile
      [] md = "download" -> VodProfile
      [] md = "vod" -> DownloadProfile

target_stream(md) ==
    CASE md = "live" -> LiveProfile
      [] md = "download" -> DownloadProfile
      [] md = "vod" -> VodProfile

FlavorLog == <<Log("Kaltura stream flavors", <<>>)>>

\* indexes of the sources the generator of line 106 yields
Matching(sources, md) ==
    {i \in 1..Len(sources) : sources[i].deliveryProfileId = target_stream(md)}

\* next() with a default: the first source when none has the profile
get_hd_mpd_stream_manifest_BestEffort(site, md) ==
    IF ~site.has_sources THEN Raised("KeyError", FlavorLog)
    ELSE IF md \notin Modes THEN Raised("UnboundLocalError", FlavorLog)
    ELSE LET sources == site.sources
             hits == IF Matching(sources, md) = {} THEN DOMAIN sources
                     ELSE Matching(sources, md)
         IN IF hits = {} THEN Raised("StopIteration", FlavorLog)
            ELSE LET first == CHOOSE i \in hits : \A j \in hits : i <= j
                     url == sources[first].url
                 IN IF md = "download"
                    THEN IF url = None THEN Raised("TypeError", FlavorLog)
                         ELSE Returned(StripFlavors(url), FlavorLog)
                    ELSE Returned(url, FlavorLog)

get_hd_mpd_stream_manifest(site, md) ==
    IF ~site.has_sources THEN Raised("KeyError", FlavorLog)
    ELSE IF md \notin Modes THEN Raised("UnboundLocalError", FlavorLog)
    ELSE LET sources == site.sources
             hits == Matching(sources, md)
         IN IF hits = {} THEN Raised("StopIteration", FlavorLog)
            ELSE LET first == CHOOSE i \in hits : \A j \in hits : i <= j
                     url == sources[first].url
                 IN IF md = "download"
                    THEN IF url = None THEN Raised("TypeError", FlavorLog)
                         ELSE Returned(StripFlavors(url), FlavorLog)
                    ELSE Returned(url, FlavorLog)

\* ------------------------------------------------ kaltura.get_subtitles
SubsNone == [none |-> TRUE, items |-> {}]
SubsDict(d) == [none |-> FALSE, items |-> d]

ApiBase == <<"https://cdnapisec.kaltura.com/api_v3/service/">>
ServiceWord == <<"s", "e", "r", "v", "i", "c", "e", "/">>

get_api_url(service) == ApiBase \o service
get_subtitle_url(url) == get_api_url(extract_suffix(ServiceWord, url))

SubKey(c) == <<".", c.label, "-", c.languageCode, ".sub">>

\* the dict comprehension: a later caption replaces an earlier one of the same key
get_subtitles(site) ==
    IF ~site.has_captions THEN Raised("KeyError", <<>>)
    ELSE LET caps == site.playbackCaptions
         IN IF \E i \in 1..Len(caps) : caps[i].url = None
            THEN Raised("AttributeError", <<>>)
            ELSE Returned(
                   SubsDict({<<SubKey(caps[i]), get_subtitle_url(caps[i].url)>> :
                      i \in {j \in 1..Len(caps) :
                                \A k \in (j + 1)..Len(caps) :
                                    SubKey(caps[k]) # SubKey(caps[j])}}),
                   <<>>)

NoResult == [returned |-> FALSE, manifest |-> None, stream_format |-> "",
             subs |-> SubsNone]
Result(m, f, sb) == [returned |-> TRUE, manifest |-> m, stream_format |-> f,
                     subs |-> sb]

\* ------------------------------------------------------------ idle values
IdleVod ==
    /\ yle_id = EmptyStr /\ arg_kaltura_id = EmptyStr /\ kaltura_id = EmptyStr
    /\ mode = "vod" /\ manifest = None /\ stream_format = ""
    /\ subs = SubsNone
    /\ hls_res = NoHlsRes /\ mpd_res = NoMpdRes /\ vod_result = NoResult

IdlePage ==
    /\ arg_offset = 0 /\ arg_total = 0 /\ offset = 0 /\ total = 0
    /\ ctx = <<>> /\ server_total = 0

IdleRoute == media_data = None /\ media_id = None

\* live_res before the yle live player api has answered
NoLiveRes == [answered |-> FALSE, has_id |-> FALSE, id |-> None]
NoLiveResult == [returned |-> FALSE, manifest |-> None, stream_format |-> ""]
LiveResult(m, f) == [returned |-> TRUE, manifest |-> m, stream_format |-> f]

IdleLive == live_res = NoLiveRes /\ live_result = NoLiveResult

\* listing before the parser has returned
NoListing == [returned |-> FALSE, items |-> <<>>]
Listing(l) == [returned |-> TRUE, items |-> l]

IdleList ==
    /\ entries = <<>> /\ categories = <<>> /\ listing = NoListing
    /\ jwt_url = EmptyStr /\ api_tok = None /\ show_clips = ""
    /\ seasons = <<>> /\ payload = <<>>

NoSeconds == [raised |-> "", value |-> None, returned |-> FALSE]
IdleDur == stamp = None /\ stamp_seconds = NoSeconds

IdleDl ==
    /\ filename = EmptyStr /\ filepath = EmptyStr /\ filesize = 0
    /\ renames = 0 /\ effects = <<>>

\* The value of a window property is a string. The cache stores two kinds:
\* the list of ids, text, kept as its pieces (a comma or an id each), and
\* json.dumps((content, content_type)), kept as json, the pair it was made
\* of. The empty string, which getProperty gives for a property not set, has
\* neither.
NoText == [text |-> <<>>, json |-> <<>>]
CsvText(pieces) == [text |-> pieces, json |-> <<>>]
json_dumps(content, content_type) == [text |-> <<>>, json |-> <<content, content_type>>]
IsEmptyText(v) == v.text = <<>> /\ v.json = <<>>

\* get_data gives None or the list json.loads returns
NoData == [none |-> TRUE, content |-> <<>>, content_type |-> ""]
json_loads(v) == [none |-> FALSE, content |-> v.json[1], content_type |-> v.json[2]]

NoInvocations == [p \in {} |-> p]
IdleCache ==
    /\ memcache = [n \in {} |-> NoText] /\ cache_calls = <<>>
    /\ cached_data = NoData /\ inv = NoInvocations

IdleMain ==
    /\ main_params = "" /\ main_locale = "" /\ listings = <<>>
    /\ fetched_keys = {} /\ served = 0

IdleExt == IdleDur /\ IdleDl /\ IdleCache /\ IdleMain

IdleCommon ==
    /\ exc = "" /\ requests = <<>> /\ log_msgs = <<>> /\ debug \in BOOLEAN

\* ------------------------------------------------ routing as a function
IdChars == {"2", "9", "5", "6", "7", "-", "x"}
MediaIds == StringsUpTo(IdChars, MaxIdLen)

InitRoute ==
    /\ IdleCommon /\ IdleExt /\ IdleVod /\ IdlePage /\ IdleLive /\ IdleList
    /\ pc = "route"
    /\ media_data \in MediaIds \cup {None}
    /\ media_id = None

RouteReturns ==
    /\ pc = "route"
    /\ LET r == get_kaltura_id_or_none(media_data)
       IN /\ r.raised = ""
          /\ media_id' = r.value
          /\ log_msgs' = log_msgs \o r.logged
          /\ pc' = "done"
    /\ UNCHANGED <<extVars, exc, requests, debug, media_data, vodVars, pageVars,
                 liveVars, listVars>>

RouteRaises ==
    /\ pc = "route"
    /\ LET r == get_kaltura_id_or_none(media_data)
       IN /\ r.raised # ""
          /\ exc' = r.raised
          /\ log_msgs' = log_msgs \o r.logged
          /\ pc' = "error"
    /\ UNCHANGED <<extVars, requests, debug, media_data, media_id, vodVars, pageVars,
                 liveVars, listVars>>

NextRoute == RouteReturns \/ RouteRaises

SpecRoute == InitRoute /\ [][NextRoute]_vars

\* ------------------------------------------ router.get_vod_stream_manifest
\* inputs
YleIds == {<<"1", "-", "5">>}
SuppliedKalturaIds == {EmptyStr, <<"1", "_", "k">>}

UrlHls == <<"/", "h", ".", "m", "3", "u">>
UrlMpdFlavors == <<"/", "f", "/", "1", "a", ",", "1", "b", "/", "m">>
UrlMpdPlain == <<"/", "f", "/", "m">>

\* media ids the yle api may answer with
IdSamples == {
    EmptyStr,
    <<"2", "9", "-", "1", "_", "a">>,
    <<"2", "9", "-", "1", "-", "a">>,
    <<"2", "9", "-">>,
    <<"2", "9">>,
    <<"5", "5", "-", "x">>,
    <<"6", "7", "-", "x">>,
    <<"1", "3", "-", "x">>,
    <<"x">> }

Shapes == {EmptyShape} \cup
    [populated : {TRUE}, manifest_url : {UrlHls, None},
     media_id : IdSamples \cup {None}]

\* a response populates one shape; the responses with both populated carry
\* one fixed live-event shape next to the on-demand one
EventBeside == [populated |-> TRUE, manifest_url |-> UrlHls,
                media_id |-> <<"2", "9", "-", "1", "_", "a">>]
PrimaryResponses ==
    {r \in [answered : {TRUE}, ongoing_ondemand : Shapes, ongoing_event : Shapes] :
        r.ongoing_ondemand = EmptyShape
        \/ r.ongoing_event \in {EmptyShape, EventBeside}}

\* deliveryProfileId -1 stands for a source without the key (None)
ProfileIds == {LiveProfile, DownloadProfile, VodProfile, -1}
Sources == [deliveryProfileId : ProfileIds,
            url : {UrlMpdFlavors, UrlMpdPlain, None}]
SourceLists == UNION {[1..k -> Sources] : k \in 0..MaxSources}

CaptionFi == [label |-> "Suomi", languageCode |-> "fi",
              url |-> <<"/", "s", "e", "r", "v", "i", "c", "e", "/", "c", "1">>]
CaptionSv == [label |-> "Svenska", languageCode |-> "sv",
              url |-> <<"/", "s", "e", "r", "v", "i", "c", "e", "/", "c", "2">>]
CaptionFi2 == [label |-> "Suomi", languageCode |-> "fi",
               url |-> <<"/", "s", "e", "r", "v", "i", "c", "e", "/", "c", "3">>]
CaptionNoUrl == [label |-> "Suomi", languageCode |-> "fi", url |-> None]
CaptionLists == {<<>>, <<CaptionFi>>, <<CaptionFi, CaptionSv>>,
                 <<CaptionFi, CaptionFi2>>, <<CaptionNoUrl>>}

SecondaryResponses ==
    [answered : {TRUE}, has_sources : {TRUE}, sources : SourceLists,
     has_captions : {TRUE}, playbackCaptions : CaptionLists]
    \cup [answered : {TRUE}, has_sources : {TRUE}, sources : SourceLists,
          has_captions : {FALSE}, playbackCaptions : {<<>>}]
    \cup [answered : {TRUE}, has_sources : {FALSE}, sources : {<<>>},
          has_captions : {FALSE}, playbackCaptions : {<<>>}]

\* line 356: if not kaltura_id
NoKalturaId_Always(kid) == TRUE
NoKalturaId(kid) == Falsy(kid)

\* line 361: if kaltura_id, reached with the id the yle api returned
ContinuesToMpd_Elif(kid) == FALSE
ContinuesToMpd(kid) == ~Falsy(kid)

\* line 346: if mode == "download"
ReadsCaptions_Always(md) == TRUE
ReadsCaptions(md) == md = "download"

\* line 361 is reached with a kaltura id: passed in (line 356 skipped) or
\* returned by the yle api
MpdBranchReached ==
    IF pc = "vod" THEN ~NoKalturaId(kaltura_id) /\ ~Falsy(kaltura_id)
    ELSE pc = "vod_mpd"

InitVod ==
    /\ IdleCommon /\ IdleExt /\ IdlePage /\ IdleRoute /\ IdleLive /\ IdleList
    /\ pc = "vod"
    /\ yle_id \in YleIds
    /\ arg_kaltura_id \in SuppliedKalturaIds
    /\ kaltura_id = arg_kaltura_id
    /\ mode \in {"vod", "download"}
    /\ manifest = None /\ stream_format = "" /\ subs = SubsNone
    /\ hls_res = NoHlsRes /\ mpd_res = NoMpdRes /\ vod_result = NoResult

\* get_hls_stream_manifest: the request to the yle preview api fails
HlsRequestFails ==
    /\ pc = "vod" /\ NoKalturaId(kaltura_id)
    /\ requests' = Append(requests, Req("preview", yle_id, 0, 0))
    /\ log_msgs' = log_msgs \o UrlLogs
    /\ exc' = "HTTPError"
    /\ pc' = "error"
    /\ UNCHANGED <<extVars, debug, vodVars, pageVars, routeVars,
                   liveVars, listVars>>

\* get_hls_stream_manifest answered; lines 356-359 and, when no kaltura id
\* came back, the return of line 367
GetHlsStreamManifest ==
    /\ pc = "vod" /\ NoKalturaId(kaltura_id)
    /\ \E res \in PrimaryResponses :
         LET r == get_stream_manifest(res)
         IN /\ hls_res' = res
            /\ requests' = Append(requests, Req("preview", yle_id, 0, 0))
            /\ log_msgs' = log_msgs \o UrlLogs \o r.route.logged
            /\ IF r.route.raised # ""
               THEN /\ exc' = r.route.raised
                    /\ pc' = "error"
                    /\ UNCHANGED <<manifest, kaltura_id, stream_format, subs,
                                   vod_result>>
               ELSE /\ manifest' = r.manifest
                    /\ kaltura_id' = r.route.value
                    /\ stream_format' = "hls"
                    /\ subs' = SubsDict({})
                    /\ exc' = exc
                    /\ IF ContinuesToMpd(r.route.value)
                       THEN /\ vod_result' = vod_result
                            /\ pc' = "vod_mpd"
                       ELSE /\ vod_result' = Result(r.manifest, "hls", SubsDict({}))
                            /\ pc' = "done"
    /\ UNCHANGED <<extVars, debug, yle_id, arg_kaltura_id, mode, mpd_res, pageVars,
                   routeVars,
                   liveVars, listVars>>

\* get_mpd_stream_manifest: the request to the kaltura api fails
MpdRequestFails ==
    /\ MpdBranchReached
    /\ requests' = Append(requests, Req("multirequest", kaltura_id, 0, 0))
    /\ log_msgs' = log_msgs \o UrlLogs
    /\ exc' = "HTTPError"
    /\ pc' = "error"
    /\ UNCHANGED <<extVars, debug, vodVars, pageVars, routeVars,
                   liveVars, listVars>>

\* get_mpd_stream_manifest answered; lines 361-367
GetMpdStreamManifest ==
    /\ MpdBranchReached
    /\ \E res \in SecondaryResponses :
         LET m == get_hd_mpd_stream_manifest(res, mode)
             subtitles == IF m.raised # "" THEN Returned(SubsNone, <<>>)
                          ELSE IF ReadsCaptions(mode) THEN get_subtitles(res)
                          ELSE Returned(SubsNone, <<>>)
             failed == IF m.raised # "" THEN m.raised ELSE subtitles.raised
         IN /\ mpd_res' = res
            /\ requests' = Append(requests, Req("multirequest", kaltura_id, 0, 0))
            /\ log_msgs' = log_msgs \o UrlLogs \o m.logged
            /\ IF failed # ""
               THEN /\ exc' = failed
                    /\ pc' = "error"
                    /\ UNCHANGED <<manifest, stream_format, subs, vod_result>>
               ELSE /\ manifest' = m.value
                    /\ subs' = subtitles.value
                    /\ stream_format' = "mpd"
                    /\ vod_result' = Result(m.value, "mpd", subtitles.value)
                    /\ exc' = exc
                    /\ pc' = "done"
    /\ UNCHANGED <<extVars, debug, yle_id, arg_kaltura_id, kaltura_id, mode, hls_res,
                   pageVars, routeVars,
                   liveVars, listVars>>

NextVod ==
    \/ HlsRequestFails
    \/ GetHlsStreamManifest
    \/ MpdRequestFails
    \/ GetMpdStreamManifest

SpecVod == InitVod /\ [][NextVod]_vars

\* -------------------- kaltura.get_hd_mpd_stream_manifest as a function
KalturaResponses ==
    [answered : {TRUE}, has_sources : {TRUE}, sources : SourceLists,
     has_captions : {FALSE}, playbackCaptions : {<<>>}]
    \cup [answered : {TRUE}, has_sources : {FALSE}, sources : {<<>>},
          has_captions : {FALSE}, playbackCaptions : {<<>>}]

InitKaltura ==
    /\ IdleCommon /\ IdleExt /\ IdlePage /\ IdleRoute /\ IdleLive /\ IdleList
    /\ pc = "select"
    /\ yle_id = EmptyStr /\ arg_kaltura_id = EmptyStr /\ kaltura_id = EmptyStr
    /\ mode \in Modes
    /\ manifest = None /\ stream_format = "" /\ subs = SubsNone
    /\ hls_res = NoHlsRes /\ vod_result = NoResult
    /\ mpd_res \in KalturaResponses

SelectReturns ==
    /\ pc = "select"
    /\ LET m == get_hd_mpd_stream_manifest(mpd_res, mode)
       IN /\ m.raised = ""
          /\ manifest' = m.value
          /\ log_msgs' = log_msgs \o m.logged
          /\ pc' = "done"
    /\ UNCHANGED <<extVars, exc, requests, debug, yle_id, arg_kaltura_id, kaltura_id,
                   mode, stream_format, subs, hls_res, mpd_res, vod_result,
                   pageVars, routeVars,
                   liveVars, listVars>>

SelectRaises ==
    /\ pc = "select"
    /\ LET m == get_hd_mpd_stream_manifest(mpd_res, mode)
       IN /\ m.raised # ""
          /\ exc' = m.raised
          /\ log_msgs' = log_msgs \o m.logged
          /\ pc' = "error"
    /\ UNCHANGED <<extVars, requests, debug, vodVars, pageVars, routeVars,
                   liveVars, listVars>>

NextKaltura == SelectReturns \/ SelectRaises

SpecKaltura == InitKaltura /\ [][NextKaltura]_vars

\* -------------------------------------------- router.get_extended_content
\* The server holds the items 0 .. held-1 of the list; a page query answers
\* with the items it holds in [off, off+limit) and reports held as meta.count
\* (yle.get_query_content gives one record per item, and the count).
ServerPage(limit, off, held) ==
    [content |-> [i \in 1..Max(0, Min(off + limit, held) - off) |-> off + i - 1],
     count |-> held]

PageLogs == UrlLogs \o <<Log("Category content", <<>>)>>

\* line 246: requested = min(total, 100)
Requested(t) == Min(t, PageSize)

\* line 252: total = min(total, count) - requested
Remaining_NoSubtract(t, count, requested) == Min(t, count)
Remaining_IgnoreCount(t, count, requested) == t - requested
Remaining(t, count, requested) == Min(t, count) - requested

\* line 254: offset += requested (content is the page that was returned)
NextOffset_ByReturned(off, requested, content) == off + Len(content)
NextOffset_NoAdvance(off, requested, content) == off
NextOffset(off, requested, content) == off + requested

InitPage ==
    /\ IdleCommon /\ IdleExt /\ IdleVod /\ IdleRoute /\ IdleLive /\ IdleList
    /\ pc = "page"
    /\ arg_offset \in 0..MaxOffset
    /\ arg_total \in 0..MaxTotal
    /\ server_total \in 0..MaxServer
    /\ offset = arg_offset
    /\ total = arg_total
    /\ ctx = <<>>

\* one iteration of the loop, lines 244-254, the server holding held items
FetchPageWith(held) ==
    /\ pc = "page" /\ total > 0
    /\ LET requested == Requested(total)
           page == ServerPage(requested, offset, held)
       IN /\ requests' = Append(requests, Req("content", EmptyStr, requested, offset))
          /\ log_msgs' = log_msgs \o PageLogs
          /\ ctx' = ctx \o page.content
          /\ total' = Remaining(total, page.count, requested)
          /\ offset' = NextOffset(offset, requested, page.content)
    /\ UNCHANGED <<extVars, pc, exc, debug, arg_offset, arg_total, server_total,
                   vodVars, routeVars,
                   liveVars, listVars>>

\* the server's list does not change during the request
FetchPage == FetchPageWith(server_total)

\* the server's list, and so the count it reports, changes between pages:
\* every page is answered from a list of another length (server_total is not
\* used). The lengths tried are the ones next to a multiple of half a page.
DynCounts ==
    {c \in 0..MaxServer :
        c % (PageSize \div 2) \in {0, 1, (PageSize \div 2) - 1}}
FetchPageDyn == \E held \in DynCounts : FetchPageWith(held)

\* get_url_response raises in the loop
PageRequestFails ==
    /\ pc = "page" /\ total > 0
    /\ requests' = Append(requests, Req("content", EmptyStr, Requested(total), offset))
    /\ log_msgs' = log_msgs \o UrlLogs
    /\ exc' = "HTTPError"
    /\ pc' = "error"
    /\ UNCHANGED <<extVars, debug, pageVars, vodVars, routeVars,
                   liveVars, listVars>>

\* line 256: return ctx
ReturnCtx ==
    /\ pc = "page" /\ total <= 0
    /\ pc' = "done"
    /\ UNCHANGED <<extVars, exc, requests, log_msgs, debug, pageVars, vodVars, routeVars,
                   liveVars, listVars>>

NextPage == FetchPage \/ PageRequestFails \/ ReturnCtx
SpecPage == InitPage /\ [][NextPage]_vars

InitPageDyn == InitPage /\ server_total = 0
NextPageDyn == FetchPageDyn \/ ReturnCtx
SpecPageDyn == InitPageDyn /\ [][NextPageDyn]_vars

\* every page request returns and the loop goes on
SpecPageFair == SpecPageDyn /\ WF_vars(NextPageDyn)

\* ------------- kaltura.get_hd_mpd_stream_manifest on download manifests
\* urls over a digit, a letter and the two separators the pattern names
UrlChars == {"1", "a", ",", "/"}
FlavorUrls == StringsUpTo(UrlChars, MaxUrlLen)

\* the response holds one source, of the download profile or of the vod one
InitFlavors ==
    /\ IdleCommon /\ IdleExt /\ IdlePage /\ IdleRoute /\ IdleLive /\ IdleList
    /\ pc = "select"
    /\ yle_id = EmptyStr /\ arg_kaltura_id = EmptyStr /\ kaltura_id = EmptyStr
    /\ mode = "download"
    /\ manifest = None /\ stream_format = "" /\ subs = SubsNone
    /\ hls_res = NoHlsRes /\ vod_result = NoResult
    /\ \E p \in {DownloadProfile, VodProfile}, u \in FlavorUrls :
         mpd_res = [answered |-> TRUE, has_sources |-> TRUE,
                    sources |-> <<[deliveryProfileId |-> p, url |-> u]>>,
                    has_captions |-> FALSE, playbackCaptions |-> <<>>]

SpecFlavors == InitFlavors /\ [][NextKaltura]_vars

\* ----------------------------------------- router.get_live_stream_manifest
YleAreena == <<"y", "l", "e", "-", "a", "r", "e", "e", "n", "a">>
LiveChannels == {YleAreena, <<"6", "2", "2", "/", "t", "v", "1">>}

LiveTvBase == <<"https://yletv.akamaized.net/hls/live/">>
LiveTvTail == <<"/master.m3u8">>
get_live_tv_url(id) == LiveTvBase \o id \o LiveTvTail

\* the live player api answers with data.live.item.id, or without it
LiveResponses ==
    [answered : {TRUE}, has_id : {TRUE}, id : YleIds \cup {None}]
    \cup {[answered |-> TRUE, has_id |-> FALSE, id |-> None]}

get_live_stream_media_id(site) ==
    IF site.has_id THEN Returned(site.id, <<Log("Live stream", <<>>)>>)
    ELSE Raised("KeyError", <<Log("Live stream", <<>>)>>)

InitLive ==
    /\ IdleCommon /\ IdleExt /\ IdlePage /\ IdleRoute /\ IdleList
    /\ pc = "live"
    /\ yle_id \in LiveChannels
    /\ arg_kaltura_id = EmptyStr /\ kaltura_id = EmptyStr
    /\ mode = "live" /\ manifest = None /\ stream_format = "" /\ subs = SubsNone
    /\ hls_res = NoHlsRes /\ mpd_res = NoMpdRes /\ vod_result = NoResult
    /\ live_res = NoLiveRes /\ live_result = NoLiveResult

\* lines 384-387: a channel other than yle-areena
GetLiveTvUrl ==
    /\ pc = "live" /\ yle_id # YleAreena
    /\ manifest' = get_live_tv_url(yle_id)
    /\ live_result' = LiveResult(get_live_tv_url(yle_id), "hls")
    /\ pc' = "done"
    /\ UNCHANGED <<extVars, exc, requests, log_msgs, debug, yle_id, arg_kaltura_id,
                   kaltura_id, mode, stream_format, subs, hls_res, mpd_res,
                   vod_result, live_res, pageVars, routeVars, listVars>>

\* get_live_broadcast: the request to the live player api fails
LiveRequestFails ==
    /\ pc = "live" /\ yle_id = YleAreena
    /\ requests' = Append(requests, Req("players", yle_id, 0, 0))
    /\ log_msgs' = log_msgs \o UrlLogs
    /\ exc' = "HTTPError"
    /\ pc' = "error"
    /\ UNCHANGED <<extVars, debug, vodVars, pageVars, routeVars, liveVars, listVars>>

\* get_live_broadcast, lines 372-374: the live player api answered
GetLiveBroadcast ==
    /\ pc = "live" /\ yle_id = YleAreena
    /\ \E res \in LiveResponses :
         LET r == get_live_stream_media_id(res)
         IN /\ live_res' = res
            /\ requests' = Append(requests, Req("players", yle_id, 0, 0))
            /\ log_msgs' = log_msgs \o UrlLogs \o r.logged
            /\ exc' = r.raised
            /\ pc' = IF r.raised # "" THEN "error" ELSE "live_hls"
    /\ UNCHANGED <<extVars, debug, vodVars, live_result, pageVars, routeVars, listVars>>

\* get_hls_stream_manifest called from line 375: the request fails
LiveHlsRequestFails ==
    /\ pc = "live_hls"
    /\ requests' = Append(requests, Req("preview", live_res.id, 0, 0))
    /\ log_msgs' = log_msgs \o UrlLogs
    /\ exc' = "HTTPError"
    /\ pc' = "error"
    /\ UNCHANGED <<extVars, debug, vodVars, pageVars, routeVars, liveVars, listVars>>

\* lines 375-377 and 387: manifest, _ = get_hls_stream_manifest(yle_id); the
\* kaltura id of the answer is dropped
GetLiveHlsStreamManifest ==
    /\ pc = "live_hls"
    /\ \E res \in PrimaryResponses :
         LET r == get_stream_manifest(res)
         IN /\ hls_res' = res
            /\ requests' = Append(requests, Req("preview", live_res.id, 0, 0))
            /\ log_msgs' = log_msgs \o UrlLogs \o r.route.logged
            /\ exc' = r.route.raised
            /\ IF r.route.raised # ""
               THEN /\ pc' = "error"
                    /\ UNCHANGED <<manifest, live_result>>
               ELSE /\ manifest' = r.manifest
                    /\ live_result' = LiveResult(r.manifest, "hls")
                    /\ pc' = "done"
    /\ UNCHANGED <<extVars, debug, yle_id, arg_kaltura_id, kaltura_id, mode,
                   stream_format, subs, mpd_res, vod_result, live_res,
                   pageVars, routeVars, listVars>>

NextLive ==
    \/ GetLiveTvUrl
    \/ LiveRequestFails
    \/ GetLiveBroadcast
    \/ LiveHlsRequestFails
    \/ GetLiveHlsStreamManifest

SpecLive == InitLive /\ [][NextLive]_vars

\* ------------------------------------- yle.sort_alphabetical_categories
\* line 206; the six letters outside ASCII are written by their names
alphabet == <<"0-9", "A", "Agrave", "B", "C", "D", "E", "F", "G", "H", "I",
              "J", "K", "L", "M", "N", "O", "P", "Q", "R", "S", "T", "Thorn",
              "U", "V", "W", "X", "Y", "Z", "Zcaron", "Aring", "Auml", "Ouml">>

\* alphabet.index(name), 0-based; -1 stands for the ValueError of a name that
\* is not in the list
alphabet_index_Lenient(name) ==
    LET hits == {i \in 1..Len(alphabet) : alphabet[i] = name}
    IN IF hits = {} THEN Len(alphabet)
       ELSE (CHOOSE i \in hits : \A j \in hits : i <= j) - 1

alphabet_index(name) ==
    LET hits == {i \in 1..Len(alphabet) : alphabet[i] = name}
    IN IF hits = {} THEN -1
       ELSE (CHOOSE i \in hits : \A j \in hits : i <= j) - 1

\* position of every record of cats in sorted(cats, key=alphabet.index): the sort is
\* stable, so equal keys keep their input order
StableRanks(cats) ==
    LET keys == [i \in 1..Len(cats) |-> alphabet_index(cats[i].name)]
    IN [i \in 1..Len(cats) |->
           Cardinality({j \in 1..Len(cats) :
               keys[j] < keys[i] \/ (keys[j] = keys[i] /\ j <= i)})]

SortedByKey(cats) ==
    LET ranks == StableRanks(cats)
    IN [k \in 1..Len(cats) |-> cats[CHOOSE i \in 1..Len(cats) : ranks[i] = k]]

\* line 217: offset += item["api_data"]["count"]
NextCategoryOffset_NoAdd(off, count) == count
NextCategoryOffset(off, count) == off + count

\* lines 210-217: the value of offset when the loop reaches position k
RECURSIVE OffsetAt(_, _)
OffsetAt(sorted, k) ==
    IF k = 1 THEN 0
    ELSE NextCategoryOffset(OffsetAt(sorted, k - 1), sorted[k - 1].count)

\* line 214 for every item of sorted_categories
AssignOffsets(sorted) ==
    [k \in 1..Len(sorted) |->
        [sorted[k] EXCEPT !.has_offset = TRUE, !.offset = OffsetAt(sorted, k)]]

sort_alphabetical_categories(cats) ==
    IF \E i \in 1..Len(cats) : alphabet_index(cats[i].name) = -1
    THEN Raised("ValueError", <<>>)
    ELSE LET sorted_categories == SortedByKey(cats)
         IN Returned(AssignOffsets(sorted_categories), <<>>)

\* ------------------------------------------ yle.get_alphabetical_categories
\* lines 232-238: one record per entry of meta.resultGroups; an entry without
\* "key" gets the name "", one without "count" the count int("0")
AlphaRecord(entry) ==
    [name |-> IF entry.has_key THEN entry.key ELSE "",
     count |-> IF entry.has_count THEN entry.count ELSE 0,
     has_offset |-> FALSE, offset |-> 0]

AlphaLog == <<Log("Alphabetical content", <<>>)>>

\* entries of meta.resultGroups: labels of the table (Aring stands before Auml
\* there), a label that is not in it, an entry without key, one without count
ResultGroups ==
    [has_key : {TRUE}, key : {"A", "B"}, has_count : {TRUE}, count : 1..3]
    \cup [has_key : {TRUE}, key : {"0-9", "Aring", "Auml", "#"},
          has_count : {TRUE}, count : {1}]
    \cup {[has_key |-> FALSE, key |-> "", has_count |-> TRUE, count |-> 1],
          [has_key |-> TRUE, key |-> "A", has_count |-> FALSE, count |-> 0]}

InitAlpha ==
    /\ IdleCommon /\ IdleExt /\ IdleVod /\ IdlePage /\ IdleRoute /\ IdleLive
    /\ pc = "alpha"
    /\ entries \in UNION {[1..k -> ResultGroups] : k \in 0..MaxBuckets}
    /\ categories = <<>> /\ listing = NoListing
    /\ jwt_url = EmptyStr /\ api_tok = None /\ show_clips = ""
    /\ seasons = <<>> /\ payload = <<>>

\* get_alphabetical_categories returns; the records of categories are the ones
\* of the returned list, so they carry the offsets too
GetAlphabeticalCategories ==
    /\ pc = "alpha"
    /\ \E cats \in {[i \in 1..Len(entries) |-> AlphaRecord(entries[i])]} :
       \E r \in {sort_alphabetical_categories(cats)} :
          /\ r.raised = ""
          /\ listing' = Listing(r.value)
          /\ categories' =
               LET ranks == StableRanks(cats)
               IN [i \in 1..Len(cats) |-> r.value[ranks[i]]]
          /\ log_msgs' = log_msgs \o AlphaLog
          /\ pc' = "done"
    /\ UNCHANGED <<extVars, exc, requests, debug, entries, jwt_url, api_tok,
                   episodeVars, vodVars, pageVars, routeVars, liveVars>>

\* the sort key of line 209 raises: nothing is returned, no offset is set
AlphabeticalCategoriesRaises ==
    /\ pc = "alpha"
    /\ \E cats \in {[i \in 1..Len(entries) |-> AlphaRecord(entries[i])]} :
       \E r \in {sort_alphabetical_categories(cats)} :
          /\ r.raised # ""
          /\ categories' = cats
          /\ exc' = r.raised
          /\ log_msgs' = log_msgs \o AlphaLog
          /\ pc' = "error"
    /\ UNCHANGED <<extVars, requests, debug, entries, listing, jwt_url, api_tok,
                   episodeVars, vodVars, pageVars, routeVars, liveVars>>

NextAlpha == GetAlphabeticalCategories \/ AlphabeticalCategoriesRaises

SpecAlpha == InitAlpha /\ [][NextAlpha]_vars

\* -------------------------------------------------------- yle.extract_token
TokenWord == <<"t", "o", "k", "e", "n", "=">>

extract_token(u) == extract_suffix(TokenWord, u)

RECURSIVE Concat(_)
Concat(parts) == IF parts = <<>> THEN <<>> ELSE Head(parts) \o Concat(Tail(parts))

\* urls made of up to MaxPieces pieces: the marker, a part of it, other text
UrlPieces == {TokenWord, <<"t", "o", "k">>, <<"=">>, <<"a">>, <<"&">>}
TokenUrls ==
    {Concat(ps) : ps \in UNION {[1..k -> UrlPieces] : k \in 0..MaxPieces}}

InitToken ==
    /\ IdleCommon /\ IdleExt /\ IdleVod /\ IdlePage /\ IdleRoute /\ IdleLive
    /\ pc = "token"
    /\ jwt_url \in TokenUrls \cup {None}
    /\ api_tok = None
    /\ entries = <<>> /\ categories = <<>> /\ listing = NoListing
    /\ show_clips = ""
    /\ seasons = <<>> /\ payload = <<>>

ExtractToken ==
    /\ pc = "token" /\ jwt_url # None
    /\ api_tok' = extract_token(jwt_url)
    /\ pc' = "done"
    /\ UNCHANGED <<extVars, exc, requests, log_msgs, debug, entries, categories, listing,
                   jwt_url, episodeVars, vodVars, pageVars, routeVars,
                   liveVars>>

\* url is None: None has no find
ExtractTokenRaises ==
    /\ pc = "token" /\ jwt_url = None
    /\ exc' = "AttributeError"
    /\ pc' = "error"
    /\ UNCHANGED <<extVars, requests, log_msgs, debug, vodVars, pageVars, routeVars,
                   liveVars, listVars>>

NextToken == ExtractToken \/ ExtractTokenRaises

SpecToken == InitToken /\ [][NextToken]_vars

\* ------------------------------------------------ misc.get_duration_seconds
\* [A-Za-z0-9_], the characters that are no word boundary after the P
WordChars ==
    Digits \cup {"_"} \cup
    {"A", "B", "C", "D", "E", "F", "G", "H", "I", "J", "K", "L", "M", "N", "O",
     "P", "Q", "R", "S", "T", "U", "V", "W", "X", "Y", "Z",
     "a", "b", "c", "d", "e", "f", "g", "h", "i", "j", "k", "l", "m", "n", "o",
     "p", "q", "r", "s", "t", "u", "v", "w", "x", "y", "z"}

\* length of the match of [0-9]+ at the start of s, 0 when none
LeadingDigits(s) ==
    LET ks == {k \in 0..Len(s) : \A i \in 1..k : s[i] \in Digits}
    IN CHOOSE k \in ks : \A j \in ks : j <= k

\* the match of [0-9]+([,.][0-9]+)? at the start of s
MatchNumber(s) ==
    LET n1 == LeadingDigits(s)
        n2 == IF Len(s) >= n1 + 2 /\ s[n1 + 1] \in {",", "."}
              THEN LeadingDigits(SliceFrom(s, n1 + 1)) ELSE 0
    IN [len |-> IF n2 > 0 THEN n1 + 1 + n2 ELSE n1,
        whole |-> SubSeq(s, 1, n1),
        sep |-> IF n2 > 0 THEN s[n1 + 1] ELSE "",
        frac |-> IF n2 > 0 THEN SubSeq(s, n1 + 2, n1 + 1 + n2) ELSE <<>>]

NoMatch == [ok |-> FALSE, found |-> <<>>, rest |-> <<>>]

\* the optional groups number + designator, the designators in the order of
\* allowed, each at most once; rest is what follows the last group
RECURSIVE MatchComponents(_, _)
MatchComponents(s, allowed) ==
    IF s = <<>> \/ s[1] \notin Digits
    THEN [ok |-> TRUE, found |-> <<>>, rest |-> s]
    ELSE Only({Only({
           LET at == IF after = <<>> THEN {}
                     ELSE {q \in 1..Len(allowed) : allowed[q] = after[1]}
           IN IF at = {} THEN NoMatch
              ELSE Only({
                     IF ~more.ok THEN NoMatch
                     ELSE [ok |-> TRUE,
                           found |-> <<[designator |-> after[1], num |-> num]>>
                                     \o more.found,
                           rest |-> more.rest]
                     : more \in {MatchComponents(Tail(after),
                                     SubSeq(allowed, (CHOOSE q \in at : TRUE) + 1,
                                            Len(allowed)))}})
           : after \in {SliceFrom(s, num.len)}})
           : num \in {MatchNumber(s)}})

\* re.match(rgx, time_stamp) for a string: the groups of the time part
MatchDuration(time_stamp) ==
    LET unsigned == IF time_stamp # <<>> /\ time_stamp[1] \in {"+", "-"}
                    THEN Tail(time_stamp) ELSE time_stamp
    IN IF Len(unsigned) < 2 \/ unsigned[1] # "P" \/ unsigned[2] \notin WordChars
       THEN NoMatch
       ELSE Only({
              IF ~date.ok THEN NoMatch
              ELSE IF date.rest = <<>> THEN [date EXCEPT !.found = <<>>]
              ELSE IF date.rest[1] # "T" THEN NoMatch
              ELSE Only({IF time.ok /\ time.rest = <<>> THEN time ELSE NoMatch
                         : time \in {MatchComponents(Tail(date.rest),
                                                     <<"H", "M", "S">>)}})
              : date \in {MatchComponents(Tail(unsigned), <<"Y", "M", "W", "D">>)}})

DigitValue(c) ==
    CASE c = "0" -> 0 [] c = "1" -> 1 [] c = "2" -> 2 [] c = "3" -> 3
      [] c = "4" -> 4 [] c = "5" -> 5 [] c = "6" -> 6 [] c = "7" -> 7
      [] c = "8" -> 8 [] c = "9" -> 9

RECURSIVE ToInt(_)
ToInt(digits) ==
    IF digits = <<>> THEN 0
    ELSE 10 * ToInt(SubSeq(digits, 1, Len(digits) - 1)) + DigitValue(digits[Len(digits)])

DigitChar(d) ==
    CASE d = 0 -> "0" [] d = 1 -> "1" [] d = 2 -> "2" [] d = 3 -> "3"
      [] d = 4 -> "4" [] d = 5 -> "5" [] d = 6 -> "6" [] d = 7 -> "7"
      [] d = 8 -> "8" [] d = 9 -> "9"

RECURSIVE ToDecimal(_)
ToDecimal(n) ==
    IF n < 10 THEN <<DigitChar(n)>>
    ELSE ToDecimal(n \div 10) \o <<DigitChar(n % 10)>>

RECURSIVE Pow10(_)
Pow10(k) == IF k = 0 THEN 1 ELSE 10 * Pow10(k - 1)

\* n digits of the fraction m / 10^n, the zeros at its end dropped
RECURSIVE FractionDigits(_, _)
FractionDigits(m, n) ==
    IF n = 0 \/ m = 0 THEN <<>>
    ELSE <<DigitChar(m \div Pow10(n - 1))>> \o FractionDigits(m % Pow10(n - 1), n - 1)

\* str(x) for the float x = units / 10^scale
FloatStr(units, scale) ==
    LET frac == FractionDigits(units % Pow10(scale), scale)
    IN ToDecimal(units \div Pow10(scale)) \o <<".">>
       \o (IF frac = <<>> THEN <<"0">> ELSE frac)

\* lines 45-47: float(group or 0) * factor, in units of 10^-scale
ScaledTerm(found, designator, factor, scale) ==
    LET at == {q \in 1..Len(found) : found[q].designator = designator}
    IN IF at = {} THEN 0
       ELSE LET num == found[CHOOSE q \in at : TRUE].num
            IN (ToInt(num.whole) * Pow10(scale)
                + ToInt(num.frac) * Pow10(scale - Len(num.frac))) * factor

\* time stamps are strings or None; a match whose hours, minutes or seconds
\* hold a decimal comma fails in float() with ValueError
get_duration_seconds(time_stamp) ==
    IF time_stamp = None THEN Returned(EmptyStr, <<>>)
    ELSE Only({
           IF ~match.ok THEN Returned(EmptyStr, <<>>)
           ELSE IF \E q \in 1..Len(match.found) : match.found[q].num.sep = ","
           THEN Raised("ValueError", <<>>)
           ELSE LET fracs == {Len(match.found[q].num.frac) :
                                  q \in 1..Len(match.found)} \cup {0}
                IN Only({Only({Returned(FloatStr(seconds, scale), <<>>)
                       : seconds \in {ScaledTerm(match.found, "H", 3600, scale)
                                      + ScaledTerm(match.found, "M", 60, scale)
                                      + ScaledTerm(match.found, "S", 1, scale)}})
                       : scale \in {CHOOSE k \in fracs : \A j \in fracs : j <= k}})
           : match \in {MatchDuration(time_stamp)}})

\* ------------------------------------------ yle.extract_duration_timestamp
\* An element of a labels list is a dict (is_dict) with rawType and raw, where
\* raw None stands for a missing or null raw, or it is no dict (a string, a
\* number, null). The elements of a labels value that is itself a string or a
\* dict are its characters or keys, which are no dicts.
RECURSIVE FirstDuration(_)
FirstDuration(items) ==
    IF items = <<>> THEN Returned(EmptyStr, <<>>)
    ELSE IF ~Head(items).is_dict THEN Raised("AttributeError", <<>>)
    ELSE IF Head(items).rawType = "duration"
    THEN get_duration_seconds(Head(items).raw)
    ELSE FirstDuration(Tail(items))

\* labels.kind: "absent" (no key), "null", "int", "str", "dict" or "list";
\* the first two cases are the failure of entry["labels"] and of the iteration
extract_duration_timestamp(labels) ==
    CASE labels.kind = "absent" -> Raised("KeyError", <<>>)
      [] labels.kind \in {"null", "int"} -> Raised("TypeError", <<>>)
      [] OTHER -> FirstDuration(labels.items)

\* ------------------------------------------------ yle.get_category_content
ImageBase == <<"https://images.cdn.yle.fi/image/upload/ar_16:9,w_720,c_fit,d_yle-areena.jpg,f_auto,fl_lossy,q_auto:eco/v">>
get_image_url(version, id) == ImageBase \o version \o <<"/">> \o id \o <<".jpg">>

get_package_path(locale) ==
    CASE locale = "fi" -> <<"/tv/ohjelmat/">>
      [] locale = "sv" -> <<"/tv/program/">>

\* image.kind: "absent", "null", "str", "list" or "dict"; version and id are
\* strings, or None for null
ImageOf(image) ==
    CASE image.kind = "absent" -> Raised("KeyError", <<>>)
      [] image.kind \in {"null", "str", "list"} -> Raised("TypeError", <<>>)
      [] OTHER -> IF ~image.has_version \/ ~image.has_id
                  THEN Raised("KeyError", <<>>)
                  ELSE Returned(get_image_url(image.version, image.id), <<>>)

\* except (AttributeError, LookupError, TypeError, ValueError)
CaughtErrors_NoValueError ==
    {"AttributeError", "LookupError", "KeyError", "IndexError", "TypeError"}
CaughtErrors_NoLookupError == {"AttributeError", "TypeError", "ValueError"}
CaughtErrors ==
    {"AttributeError", "LookupError", "KeyError", "IndexError", "TypeError",
     "ValueError"}

\* try: ... except (...): value = ""
OrEmpty(r) == IF r.raised \in CaughtErrors THEN Returned(EmptyStr, <<>>) ELSE r

\* lines 251-275 for one entry; pointer is "absent", "null" or "dict", and
\* a null pointer has no get (lines 252-253, outside the try blocks)
MediaData(entry, locale, title_prefix) ==
    LET _name == IF entry.has_title THEN entry.title ELSE EmptyStr
        _type == IF entry.pointer = "dict" THEN entry.pointer_type ELSE ""
        uri == IF entry.pointer = "dict" THEN entry.uri ELSE EmptyStr
        last == Split(uri, "/")[Len(Split(uri, "/"))]
        _id == IF _type = "package" THEN get_package_path(locale) \o last ELSE last
    IN IF entry.pointer = "null" THEN Raised("AttributeError", <<>>)
       ELSE Only({
              IF _image.raised # "" THEN _image
              ELSE IF _duration.raised # "" THEN _duration
              ELSE Returned([name |-> title_prefix \o <<" ">> \o _name,
                             description |-> IF entry.has_description
                                             THEN entry.description ELSE EmptyStr,
                             duration |-> _duration.value,
                             image |-> _image.value,
                             api_data |-> [type |-> _type, yle_id |-> _id]], <<>>)
              : _image \in {OrEmpty(ImageOf(entry.image))},
                _duration \in {OrEmpty(extract_duration_timestamp(entry.labels))}})

\* lines 250-276: the loop; it stops at the first entry that raises
RECURSIVE CategoryContent(_, _, _)
CategoryContent(data, locale, title_prefix) ==
    IF data = <<>> THEN Returned(<<>>, <<>>)
    ELSE Only({
           IF first.raised # "" THEN first
           ELSE Only({IF others.raised # "" THEN others
                      ELSE Returned(<<first.value>> \o others.value, <<>>)
                      : others \in {CategoryContent(Tail(data), locale,
                                                    title_prefix)}})
           : first \in {MediaData(Head(data), locale, title_prefix)}})

\* title_prefix = title_prefix or ""
get_category_content(data, locale, title_prefix) ==
    LET r == CategoryContent(data, locale,
                             IF Falsy(title_prefix) THEN EmptyStr ELSE title_prefix)
    IN [r EXCEPT !.logged = <<Log("Category content", <<>>)>>]

\* inputs: the shapes of image and labels that the api may deliver
Image(kind, has_version, has_id, version, id) ==
    [kind |-> kind, has_version |-> has_version, has_id |-> has_id,
     version |-> version, id |-> id]
GoodImage == Image("dict", TRUE, TRUE, <<"1">>, <<"3", "9", "-", "x">>)
BadImages == {
    Image("absent", FALSE, FALSE, None, None),
    Image("null", FALSE, FALSE, None, None),
    Image("str", FALSE, FALSE, None, None),
    Image("list", FALSE, FALSE, None, None),
    Image("dict", FALSE, TRUE, None, <<"3", "9", "-", "x">>),
    Image("dict", TRUE, FALSE, <<"1">>, None) }
NullImage == Image("dict", TRUE, TRUE, None, None)

Duration(raw) == [is_dict |-> TRUE, rawType |-> "duration", raw |-> raw]
OtherLabel == [is_dict |-> TRUE, rawType |-> "other", raw |-> None]
NoDict == [is_dict |-> FALSE, rawType |-> "", raw |-> None]
Labels(kind, items) == [kind |-> kind, items |-> items]

PT1H == <<"P", "T", "1", "H">>
PT1H30M == <<"P", "T", "1", "H", "3", "0", "M">>
PT1c5S == <<"P", "T", "1", ",", "5", "S">>

GoodLabels == {
    Labels("list", <<Duration(PT1H)>>),
    Labels("list", <<OtherLabel, Duration(PT1H30M)>>),
    Labels("list", <<Duration(PT1H), NoDict>>) }
BadLabels == {
    Labels("absent", <<>>),
    Labels("null", <<>>),
    Labels("int", <<>>),
    Labels("str", <<NoDict, NoDict>>),
    Labels("str", <<>>),
    Labels("dict", <<NoDict>>),
    Labels("dict", <<>>),
    Labels("list", <<>>),
    Labels("list", <<OtherLabel>>),
    Labels("list", <<NoDict>>),
    Labels("list", <<NoDict, Duration(PT1H)>>),
    Labels("list", <<Duration(None)>>),
    Labels("list", <<Duration(<<"x">>)>>),
    Labels("list", <<Duration(PT1c5S)>>) }

Entry(pointer, pointer_type, image, labels) ==
    [has_title |-> TRUE, title |-> <<"t">>, pointer |-> pointer,
     pointer_type |-> pointer_type, uri |-> <<"/", "a", "/", "1", "-", "5">>,
     has_description |-> TRUE, description |-> <<"d">>,
     image |-> image, labels |-> labels]

CatEntries ==
    {Entry("dict", "program", GoodImage, l) : l \in GoodLabels \cup BadLabels}
    \cup {Entry("dict", "program", i, Labels("list", <<Duration(PT1H)>>)) :
             i \in BadImages \cup {NullImage}}
    \cup {Entry("dict", "package", Image("absent", FALSE, FALSE, None, None),
                Labels("absent", <<>>)),
          Entry("null", "", GoodImage, Labels("list", <<Duration(PT1H)>>)),
          [Entry("absent", "", Image("null", FALSE, FALSE, None, None),
                 Labels("null", <<>>))
             EXCEPT !.has_title = FALSE, !.title = EmptyStr,
                    !.has_description = FALSE, !.description = EmptyStr]}

Locales == {"fi", "sv"}
TitlePrefixes == {None, <<"S", "1">>}

InitContent ==
    /\ IdleCommon /\ IdleExt /\ IdleVod /\ IdlePage /\ IdleRoute /\ IdleLive
    /\ pc = "content"
    /\ entries \in UNION {[1..k -> CatEntries] : k \in 0..MaxEntries}
    /\ categories = <<>> /\ listing = NoListing
    /\ jwt_url = EmptyStr /\ api_tok = None /\ show_clips = ""
    /\ seasons = <<>> /\ payload = <<>>

GetCategoryContent ==
    /\ pc = "content"
    /\ \E locale \in Locales, title_prefix \in TitlePrefixes :
       \E r \in {get_category_content(entries, locale, title_prefix)} :
          /\ r.raised = ""
          /\ listing' = Listing(r.value)
          /\ log_msgs' = log_msgs \o r.logged
          /\ pc' = "done"
    /\ UNCHANGED <<extVars, exc, requests, debug, entries, categories, jwt_url, api_tok,
                   episodeVars, vodVars, pageVars, routeVars, liveVars>>

\* an exception leaves the loop: nothing is returned
CategoryContentRaises ==
    /\ pc = "content"
    /\ \E locale \in Locales, title_prefix \in TitlePrefixes :
       \E r \in {get_category_content(entries, locale, title_prefix)} :
          /\ r.raised # ""
          /\ exc' = r.raised
          /\ log_msgs' = log_msgs \o r.logged
          /\ pc' = "error"
    /\ UNCHANGED <<extVars, requests, debug, entries, categories, listing, jwt_url,
                   api_tok, episodeVars, vodVars, pageVars, routeVars,
                   liveVars>>

NextContent == GetCategoryContent \/ CategoryContentRaises

SpecContent == InitContent /\ [][NextContent]_vars

\* -------------------------------------------------- yle.get_sub_categories
\* entry["controls"][0]["destination"]["uri"].split("/")[-1]; controls is
\* "absent", "null", "empty" (the list []), "no_destination", "no_uri",
\* "null_uri" or "ok"
DestinationId(entry) ==
    CASE entry.controls \in {"absent", "no_destination", "no_uri"} ->
            Raised("KeyError", <<>>)
      [] entry.controls = "null" -> Raised("TypeError", <<>>)
      [] entry.controls = "empty" -> Raised("IndexError", <<>>)
      [] entry.controls = "null_uri" -> Raised("AttributeError", <<>>)
      [] OTHER -> LET parts == Split(entry.dest_uri, "/")
                  IN Returned(parts[Len(parts)], <<>>)

\* extract_token(entry["source"]["uri"]); source is "absent", "null",
\* "no_uri", "null_uri" or "ok"
SourceToken(entry) ==
    CASE entry.source \in {"absent", "no_uri"} -> Raised("KeyError", <<>>)
      [] entry.source = "null" -> Raised("TypeError", <<>>)
      [] entry.source = "null_uri" -> Raised("AttributeError", <<>>)
      [] OTHER -> Returned(extract_token(entry.source_uri), <<>>)

\* lines 158-168; the entries after the one at hand are data. An entry that is
\* no dict has no get (line 159, outside the try block).
RECURSIVE SubCategories(_)
SubCategories(data) ==
    IF data = <<>> THEN Returned(<<>>, <<>>)
    ELSE LET entry == Head(data)
             _id == DestinationId(entry)
             _api_tok == SourceToken(entry)
             failed == IF _id.raised # "" THEN _id.raised ELSE _api_tok.raised
             others == SubCategories(Tail(data))
         IN IF ~entry.is_dict THEN Raised("AttributeError", <<>>)
            ELSE IF failed # "" /\ failed \notin CaughtErrors
            THEN Raised(failed, <<>>)
            ELSE IF others.raised # "" THEN others
            ELSE IF failed # "" THEN others
            ELSE Returned(
                   <<[name |-> IF entry.has_title THEN entry.title ELSE EmptyStr,
                      api_data |-> [type |-> "subcategory",
                                    yle_id |-> _id.value,
                                    api_tok |-> _api_tok.value]]>>
                   \o others.value, <<>>)

get_sub_categories(data) == SubCategories(data)

SubEntry(title, controls, source, source_uri) ==
    [is_dict |-> TRUE, has_title |-> TRUE, title |-> title,
     controls |-> controls, dest_uri |-> <<"/", "a", "/", "3", "0", "-">> \o title,
     source |-> source, source_uri |-> source_uri]

UriWithToken == <<"l", "?">> \o TokenWord \o <<"j", "w">>
UriNoToken == <<"l", "i", "s", "t", "?", "j", "w">>

SubEntries ==
    {SubEntry(<<"a">>, "ok", "ok", UriWithToken),
     SubEntry(<<"b">>, "ok", "ok", UriWithToken),
     SubEntry(<<"c">>, "ok", "ok", UriNoToken),
     [SubEntry(<<"d">>, "ok", "ok", UriWithToken) EXCEPT !.has_title = FALSE],
     SubEntry(<<"e">>, "absent", "absent", UriWithToken),
     [SubEntry(<<"f">>, "ok", "ok", UriWithToken) EXCEPT !.is_dict = FALSE]}
    \cup {SubEntry(<<"g">>, c, "ok", UriWithToken) :
             c \in {"absent", "null", "empty", "no_destination", "no_uri",
                    "null_uri"}}
    \cup {SubEntry(<<"h">>, "ok", x, UriWithToken) :
             x \in {"absent", "null", "no_uri", "null_uri"}}

InitSub ==
    /\ IdleCommon /\ IdleExt /\ IdleVod /\ IdlePage /\ IdleRoute /\ IdleLive
    /\ pc = "sub"
    /\ entries \in UNION {[1..k -> SubEntries] : k \in 0..MaxSubEntries}
    /\ categories = <<>> /\ listing = NoListing
    /\ jwt_url = EmptyStr /\ api_tok = None /\ show_clips = ""
    /\ seasons = <<>> /\ payload = <<>>

GetSubCategories ==
    /\ pc = "sub"
    /\ \E r \in {get_sub_categories(entries)} :
          /\ r.raised = ""
          /\ categories' = r.value
          /\ listing' = Listing(r.value)
          /\ pc' = "done"
    /\ UNCHANGED <<extVars, exc, requests, log_msgs, debug, entries, jwt_url, api_tok,
                   episodeVars, vodVars, pageVars, routeVars, liveVars>>

SubCategoriesRaises ==
    /\ pc = "sub"
    /\ \E r \in {get_sub_categories(entries)} :
          /\ r.raised # ""
          /\ exc' = r.raised
          /\ pc' = "error"
    /\ UNCHANGED <<extVars, requests, log_msgs, debug, entries, categories, listing,
                   jwt_url, api_tok, episodeVars, vodVars, pageVars,
                   routeVars, liveVars>>

NextSub == GetSubCategories \/ SubCategoriesRaises

SpecSub == InitSub /\ [][NextSub]_vars

\* ------------------------------------------------------ yle.get_season_ids
\* str.rfind(word): 0-based index of the last occurrence, -1 when absent
RFind(string, word) ==
    LET hits == {i \in 0..(Len(string) - Len(word)) :
                    SubSeq(string, i + 1, i + Len(word)) = word}
    IN IF hits = {} THEN -1 ELSE CHOOSE i \in hits : \A j \in hits : j <= i

\* string[:stop]; a negative stop counts from the end
SliceTo(string, stop) ==
    IF stop >= 0 THEN SubSeq(string, 1, Min(stop, Len(string)))
    ELSE SubSeq(string, 1, Max(Len(string) + stop, 0))

PathWord == <<"&", "p", "a", "t", "h">>

\* if x, for a string
Truthy(x) == x # ""

PseudoSeason == [title |-> EmptyStr, path |-> EmptyStr]

\* site is the series page: has_uri and has_filters are FALSE when the key (or
\* anything on the way to it) is missing
get_season_ids(site, clips) ==
    IF ~site.has_uri THEN [raised |-> "KeyError", api_tok |-> None, payload |-> <<>>]
    ELSE LET token == extract_token(site.uri)
             tok == SliceTo(token, RFind(token, PathWord))
         IN IF ~site.has_filters
            THEN [raised |-> "KeyError", api_tok |-> None, payload |-> <<>>]
            ELSE [raised |-> "", api_tok |-> tok,
                  payload |-> IF site.filters # <<>> THEN site.filters[1].options
                              ELSE IF Truthy(clips) THEN <<PseudoSeason>>
                              ELSE <<>>]

\* ------------------------------------------------------ router.get_episodes
UriSeries == <<"l", "?">> \o TokenWord \o <<"j", "w">> \o PathWord \o <<"=", "x">>

Season1 == [title |-> <<"S", "1">>, path |-> <<"1", "-", "1">>]
Season2 == [title |-> <<"S", "2">>, path |-> <<"1", "-", "2">>]
SeasonLists ==
    {sq \in UNION {[1..k -> {Season1, Season2}] : k \in 0..MaxSeasons} :
        \A i, j \in 1..Len(sq) : i < j => sq[i] # sq[j]}

\* the filters of the page: none, or one filter with its options
FilterLists == {<<>>} \cup {<<[options |-> sq]>> : sq \in SeasonLists}

SeriesPages ==
    [has_uri : {TRUE}, uri : {UriSeries, UriWithToken},
     has_filters : {TRUE}, filters : FilterLists]
    \cup {[has_uri |-> TRUE, uri |-> UriSeries, has_filters |-> FALSE,
           filters |-> <<>>],
          [has_uri |-> FALSE, uri |-> EmptyStr, has_filters |-> FALSE,
           filters |-> <<>>]}

\* what getSetting gives for show_clips: "true", "false", or "" when unset
ShowClipsValues == {"true", "false", ""}

EpisodeEntry == Entry("dict", "program", GoodImage, Labels("list", <<Duration(PT1H)>>))
EpisodeResponses == {<<>>, <<EpisodeEntry>>}

InitEpisodes ==
    /\ IdleCommon /\ IdleExt /\ IdlePage /\ IdleRoute /\ IdleLive
    /\ pc = "episodes"
    /\ yle_id \in YleIds
    /\ arg_kaltura_id = EmptyStr /\ kaltura_id = EmptyStr
    /\ mode = "vod" /\ manifest = None /\ stream_format = "" /\ subs = SubsNone
    /\ hls_res = NoHlsRes /\ mpd_res = NoMpdRes /\ vod_result = NoResult
    /\ entries = <<>> /\ categories = <<>> /\ listing = NoListing
    /\ jwt_url = EmptyStr /\ api_tok = None
    /\ show_clips \in ShowClipsValues
    /\ seasons = <<>> /\ payload = <<>>

\* line 230: the request for the series page fails
EpisodesPageFails ==
    /\ pc = "episodes"
    /\ requests' = Append(requests, Req("series", yle_id, 0, 0))
    /\ log_msgs' = log_msgs \o UrlLogs
    /\ exc' = "HTTPError"
    /\ pc' = "error"
    /\ UNCHANGED <<extVars, debug, vodVars, pageVars, routeVars, liveVars, listVars>>

\* lines 228-233: the series page is answered and get_season_ids has run
GetSeasonIds ==
    /\ pc = "episodes"
    /\ \E site \in SeriesPages :
       \E r \in {get_season_ids(site, show_clips)} :
          /\ requests' = Append(requests, Req("series", yle_id, 0, 0))
          /\ log_msgs' = log_msgs \o UrlLogs
          /\ jwt_url' = site.uri
          /\ seasons' = site.filters
          /\ exc' = r.raised
          /\ IF r.raised # ""
             THEN /\ pc' = "error"
                  /\ UNCHANGED <<api_tok, payload>>
             ELSE /\ pc' = "seasons"
                  /\ api_tok' = r.api_tok
                  /\ payload' = r.payload
    /\ UNCHANGED <<extVars, debug, entries, categories, listing, show_clips, vodVars,
                   pageVars, routeVars, liveVars>>

\* lines 234-236: the request for the episodes of a season fails
SeasonRequestFails ==
    /\ pc = "seasons" /\ payload # <<>>
    /\ requests' = Append(requests, Req("episodes", Head(payload).path, 0, 0))
    /\ log_msgs' = log_msgs \o UrlLogs
    /\ exc' = "HTTPError"
    /\ pc' = "error"
    /\ UNCHANGED <<extVars, debug, vodVars, pageVars, routeVars, liveVars, listVars>>

\* lines 234-237: one turn of the loop, the records named after the season
FetchSeason ==
    /\ pc = "seasons" /\ payload # <<>>
    /\ \E data \in EpisodeResponses :
       \E r \in {get_category_content(data, "fi", Head(payload).title)} :
          /\ requests' = Append(requests, Req("episodes", Head(payload).path, 0, 0))
          /\ log_msgs' = log_msgs \o UrlLogs \o r.logged
          /\ exc' = r.raised
          /\ IF r.raised # ""
             THEN pc' = "error" /\ UNCHANGED <<ctx, payload>>
             ELSE /\ ctx' = ctx \o r.value
                  /\ payload' = Tail(payload)
                  /\ pc' = pc
    /\ UNCHANGED <<extVars, debug, vodVars, arg_offset, arg_total, offset, total,
                   server_total, routeVars, liveVars, entries, categories,
                   listing, jwt_url, api_tok, show_clips, seasons>>

\* line 238: return ctx
ReturnEpisodes ==
    /\ pc = "seasons" /\ payload = <<>>
    /\ listing' = Listing(ctx)
    /\ pc' = "done"
    /\ UNCHANGED <<extVars, exc, requests, log_msgs, debug, vodVars, pageVars, routeVars,
                   liveVars, entries, categories, jwt_url, api_tok, episodeVars>>

NextEpisodes ==
    \/ EpisodesPageFails
    \/ GetSeasonIds
    \/ SeasonRequestFails
    \/ FetchSeason
    \/ ReturnEpisodes

SpecEpisodes == InitEpisodes /\ [][NextEpisodes]_vars

\* ------------------------------------------------ misc.get_duration_seconds
\* time stamps as the yle api may give them: pieces of a duration put together
\* in any order, well formed or not
StampPieces ==
    {<<"P">>, <<"T">>, <<"1", "H">>, <<"3", "0", "M">>, <<"4", "5", "S">>,
     <<"1", "Y">>, <<"2", "D">>, <<"1", ",", "5", "H">>, <<"x">>}

Stamps ==
    {Concat(pieces) :
        pieces \in UNION {[1..k -> StampPieces] : k \in 0..MaxStampPieces}}

InitDuration ==
    /\ IdleCommon /\ IdleMain /\ IdleDl /\ IdleCache /\ IdleVod /\ IdlePage /\ IdleRoute
    /\ IdleLive /\ IdleList
    /\ pc = "duration"
    /\ stamp \in Stamps
    /\ stamp_seconds = NoSeconds

\* lines 40-49: the function returns
GetDurationSeconds ==
    /\ pc = "duration"
    /\ \E r \in {get_duration_seconds(stamp)} :
          /\ r.raised = ""
          /\ stamp_seconds' = [raised |-> "", value |-> r.value, returned |-> TRUE]
    /\ pc' = "done"
    /\ UNCHANGED <<exc, requests, log_msgs, debug, stamp, dlVars, cacheVars, mainVars, vodVars,
                   pageVars, routeVars, liveVars, listVars>>

\* lines 45-47: float() raises
DurationSecondsRaises ==
    /\ pc = "duration"
    /\ \E r \in {get_duration_seconds(stamp)} :
          /\ r.raised # ""
          /\ exc' = r.raised
          /\ stamp_seconds' = [raised |-> r.raised, value |-> None, returned |-> FALSE]
    /\ pc' = "error"
    /\ UNCHANGED <<requests, log_msgs, debug, stamp, dlVars, cacheVars, mainVars, vodVars,
                   pageVars, routeVars, liveVars, listVars>>

NextDuration == GetDurationSeconds \/ DurationSecondsRaises

SpecDuration == InitDuration /\ [][NextDuration]_vars

\* ------------------------------------------------ router.try_download_video
\* one call of the kodi interface, of the file system or of download_file
Effect(call, status, url, off) ==
    [call |-> call, status |-> status, url |-> url, offset |-> off]
send_notification_download(status) ==
    Effect("send_notification_download", status, EmptyStr, 0)
create_EEXIST_popup(choice) == Effect("create_EEXIST_popup", choice, EmptyStr, 0)
get_user_input == Effect("get_user_input", "", EmptyStr, 0)
os_remove == Effect("os.remove", "", EmptyStr, 0)
download_file(url, off) == Effect("download_file", "", url, off)

\* str.replace("/", ":")
ReplaceSlashes(string) ==
    [i \in 1..Len(string) |-> IF string[i] = "/" THEN ":" ELSE string[i]]

Mp4 == <<".", "m", "p", "4">>
TargetDir == <<"d", "/">>

\* utils.py 85-86 and 115-116: the file name and the path made of a title
DownloadName(title) == ReplaceSlashes(title \o Mp4)
DownloadPath(title) == TargetDir \o DownloadName(title)

Filenames == {<<"t">>, <<"a", "/", "b">>}
EnteredNames == {EmptyStr, <<"n">>}
PopupChoices == {"cancel", "replace", "resume", "rename"}
FileSizes == {7}

\* line 316: after get_vod_stream_manifest has returned
StreamNotSupported == vod_result.stream_format = "hls"

\* the urls of subs, in the order of subs.items()
SubtitleUrls(sb) ==
    LET order == CHOOSE sq \in [1..Cardinality(sb.items) -> sb.items] :
                     \A i, j \in 1..Cardinality(sb.items) : i # j => sq[i] # sq[j]
    IN [i \in 1..Cardinality(sb.items) |-> order[i][2]]

InitDownload ==
    /\ IdleCommon /\ IdleMain /\ IdleDur /\ IdleCache /\ IdlePage /\ IdleRoute /\ IdleLive
    /\ IdleList
    /\ pc = "vod"
    /\ yle_id \in YleIds
    /\ arg_kaltura_id \in SuppliedKalturaIds
    /\ kaltura_id = arg_kaltura_id
    /\ mode = "download"
    /\ manifest = None /\ stream_format = "" /\ subs = SubsNone
    /\ hls_res = NoHlsRes /\ mpd_res = NoMpdRes /\ vod_result = NoResult
    /\ filename \in Filenames
    /\ filepath = EmptyStr /\ filesize = 0 /\ renames = 0 /\ effects = <<>>

\* router.py 315-324, up to the first test of the loop of
\* get_download_filepath (utils.py 81-86)
TryDownloadVideo ==
    /\ pc = "done" /\ mode = "download" /\ vod_result.returned
    /\ IF StreamNotSupported
       THEN /\ log_msgs' = Append(log_msgs, Log("Download failed", filename))
            /\ effects' = Append(effects, send_notification_download("failed"))
       ELSE UNCHANGED <<log_msgs, effects>>
    /\ filename' = DownloadName(filename)
    /\ filepath' = DownloadPath(filename)
    /\ filesize' = 0
    /\ pc' = "filepath"
    /\ UNCHANGED <<exc, requests, debug, renames, durVars, cacheVars, mainVars, vodVars, pageVars,
                   routeVars, liveVars, listVars>>

\* utils.py 89 and 118, router.py 326: no file of that name, the path is
\* returned
PathIsFree ==
    /\ pc = "filepath"
    /\ pc' = "download"
    /\ UNCHANGED <<exc, requests, log_msgs, debug, extVars, vodVars, pageVars,
                   routeVars, liveVars, listVars>>

\* utils.py 89-116: the file exists and the user is asked what to do
ExistingFilePrompt ==
    /\ pc = "filepath"
    /\ \E choice \in PopupChoices :
        CASE choice = "cancel" ->
               /\ effects' = Append(effects, create_EEXIST_popup(choice))
               /\ filepath' = EmptyStr
               /\ pc' = "ended"
               /\ UNCHANGED <<filename, filesize, renames>>
          [] choice = "replace" ->
               /\ effects' = effects \o <<create_EEXIST_popup(choice), os_remove>>
               /\ pc' = "download"
               /\ UNCHANGED <<filename, filepath, filesize, renames>>
          [] choice = "resume" ->
               /\ effects' = Append(effects, create_EEXIST_popup(choice))
               /\ filesize' \in FileSizes
               /\ pc' = "download"
               /\ UNCHANGED <<filename, filepath, renames>>
          [] choice = "rename" ->
               /\ renames < MaxRenames
               /\ effects' = effects \o <<create_EEXIST_popup(choice), get_user_input>>
               /\ renames' = renames + 1
               /\ \E entered \in EnteredNames :
                     IF entered = EmptyStr
                     THEN /\ filename' = entered
                          /\ filepath' = EmptyStr
                          /\ pc' = "ended"
                     ELSE /\ filename' = DownloadName(entered)
                          /\ filepath' = DownloadPath(entered)
                          /\ pc' = "filepath"
               /\ UNCHANGED filesize
    /\ UNCHANGED <<exc, requests, log_msgs, debug, durVars, cacheVars, mainVars, vodVars, pageVars,
                   routeVars, liveVars, listVars>>

\* router.py 300-312: download_video, every download answered
DownloadVideo ==
    /\ pc = "download" /\ manifest # None
    /\ log_msgs' = log_msgs \o <<Log("Starting download", filename),
                                 Log("Download completed", filename)>>
    /\ effects' = effects
                  \o <<send_notification_download("start"),
                       download_file(manifest, filesize)>>
                  \o [i \in 1..Cardinality(subs.items) |->
                         download_file(SubtitleUrls(subs)[i], 0)]
                  \o <<send_notification_download("success")>>
    /\ pc' = "ended"
    /\ UNCHANGED <<exc, requests, debug, filename, filepath, filesize, renames,
                   durVars, cacheVars, mainVars, vodVars, pageVars, routeVars, liveVars, listVars>>

\* router.py 302-304: the download of the video raises (no url, or the
\* transfer fails)
DownloadFileFails ==
    /\ pc = "download"
    /\ log_msgs' = Append(log_msgs, Log("Starting download", filename))
    /\ effects' = effects \o <<send_notification_download("start"),
                               download_file(manifest, filesize)>>
    /\ exc' = IF manifest = None THEN "MissingSchema" ELSE "HTTPError"
    /\ pc' = "error"
    /\ UNCHANGED <<requests, debug, filename, filepath, filesize, renames,
                   durVars, cacheVars, mainVars, vodVars, pageVars, routeVars, liveVars, listVars>>

NextDownload ==
    \/ HlsRequestFails
    \/ GetHlsStreamManifest
    \/ MpdRequestFails
    \/ GetMpdStreamManifest
    \/ TryDownloadVideo
    \/ PathIsFree
    \/ ExistingFilePrompt
    \/ DownloadVideo
    \/ DownloadFileFails

SpecDownload == InitDownload /\ [][NextDownload]_vars

\* ------------------------------------------------------------------ cache
\* the strings the addon is called with
SubcategoryParams == "type=subcategory&api_tok=t&offset=0&count=150"
SeriesParams == "type=series&yle_id=1-5"
CategoryParams == "type=category&yle_id=/tv"
ParamStrings == {SubcategoryParams, SeriesParams, CategoryParams}

\* blake2s(param_string).hexdigest()[0:10], for the strings of the model
blake2s10(param_string) ==
    CASE param_string = "fi" \o SubcategoryParams -> "a57b670ca8"
      [] param_string = "fi" \o SeriesParams -> "c47ea673c8"
      [] param_string = "fi" \o CategoryParams -> "aff8e4c55b"
      [] param_string = "sv" \o SubcategoryParams -> "b2c896a113"
      [] param_string = "sv" \o SeriesParams -> "160afd38bc"
      [] param_string = "sv" \o CategoryParams -> "11336e2069"

AddonId == "plugin.video.areena"

\* names of properties are kept as the pieces split(",") gives: one piece for
\* an id, none for the empty name
get_cache_key == <<AddonId \o "-cache-ids">>
get_cache_id(param_string) == <<AddonId \o "-" \o blake2s10(param_string)>>

CacheKeys == {l \o ps : l \in Locales, ps \in ParamStrings}
PropertyNames == {EmptyStr, get_cache_key} \cup {get_cache_id(k) : k \in CacheKeys}
EmptyWindow == [n \in PropertyNames |-> NoText]

\* line 58: cache_id_list += ("," + cache_id)
IndexAppend_Overwrite(cache_id_list, cache_id) == <<",">> \o cache_id
IndexAppend(cache_id_list, cache_id) == cache_id_list \o <<",">> \o cache_id

\* line 40: getProperty(cache_id_key)[1:].split(","); the first piece of a
\* list that is not empty is its leading comma, one character
cache_id_list_of(window) ==
    Split(SliceFrom(window[get_cache_key].text, 1), ",")

\* lines 36-44
erase(window) ==
    LET cache_id_list == cache_id_list_of(window)
        cleared == {cache_id_list[i] : i \in 1..Len(cache_id_list)}
                   \cup {get_cache_key}
    IN [n \in PropertyNames |-> IF n \in cleared THEN NoText ELSE window[n]]

\* lines 47-60
add_data(window, param_string, content, content_type) ==
    LET cache_id == get_cache_id(param_string)
        stored == [window EXCEPT ![cache_id] = json_dumps(content, content_type)]
        cache_id_list == IndexAppend(stored[get_cache_key].text, cache_id)
    IN [stored EXCEPT ![get_cache_key] = CsvText(cache_id_list)]

AddDataLogs == <<Log("Added to cache", <<>>), Log("List of cached ids", <<>>)>>

\* lines 63-73
get_data(window, param_string) ==
    LET cached == window[get_cache_id(param_string)]
    IN IF IsEmptyText(cached) THEN NoData ELSE json_loads(cached)

CacheCall(op, param_string) == [op |-> op, param_string |-> param_string]

\* what is cached in the model: a list of records, or none
CachedContents == {<<>>, <<1>>}

InitCache ==
    /\ IdleCommon /\ IdleMain /\ IdleDur /\ IdleDl /\ IdleVod /\ IdlePage /\ IdleRoute
    /\ IdleLive /\ IdleList
    /\ pc = "cache"
    /\ memcache = EmptyWindow
    /\ cache_calls = <<>>
    /\ cached_data = NoData
    /\ inv = NoInvocations

AddData ==
    /\ pc = "cache" /\ Len(cache_calls) < MaxCacheCalls
    /\ \E param_string \in CacheKeys, content \in CachedContents :
          /\ memcache' = add_data(memcache, param_string, content, "files")
          /\ cache_calls' = Append(cache_calls, CacheCall("add_data", param_string))
    /\ log_msgs' = log_msgs \o AddDataLogs
    /\ UNCHANGED <<pc, exc, requests, debug, cached_data, inv, durVars, dlVars,
                   mainVars, vodVars, pageVars, routeVars, liveVars, listVars>>

Erase ==
    /\ pc = "cache" /\ Len(cache_calls) < MaxCacheCalls
    /\ memcache' = erase(memcache)
    /\ cache_calls' = Append(cache_calls, CacheCall("erase", ""))
    /\ UNCHANGED <<commonVars, cached_data, inv, durVars, dlVars, mainVars, vodVars,
                   pageVars, routeVars, liveVars, listVars>>

GetData ==
    /\ pc = "cache" /\ Len(cache_calls) < MaxCacheCalls
    /\ \E param_string \in CacheKeys :
          /\ cached_data' = get_data(memcache, param_string)
          /\ cache_calls' = Append(cache_calls, CacheCall("get_data", param_string))
    /\ log_msgs' = Append(log_msgs, Log("Cache data exists", <<>>))
    /\ UNCHANGED <<pc, exc, requests, debug, memcache, inv, durVars, dlVars,
                   mainVars, vodVars, pageVars, routeVars, liveVars, listVars>>

NextCache == AddData \/ Erase \/ GetData

SpecCache == InitCache /\ [][NextCache]_vars

\* ------------------------------------- cache.add_data, two at the same time
\* Two invocations of the addon run add_data at the same time; every access
\* to the window is one step. erase runs afterwards, alone.
Invocations == {1, 2}

\* the list line 60 writes is made of the one line 57 read
ListToExtend_ReadAgain(read, current) == current
ListToExtend(read, current) == read

Invocation(at, param_string, cache_id_list) ==
    [at |-> at, param_string |-> param_string, cache_id_list |-> cache_id_list]

InitCacheRace ==
    /\ IdleCommon /\ IdleMain /\ IdleDur /\ IdleDl /\ IdleVod /\ IdlePage /\ IdleRoute
    /\ IdleLive /\ IdleList
    /\ pc = "add_data"
    /\ memcache \in {EmptyWindow,
                     add_data(EmptyWindow, "sv" \o CategoryParams, <<>>, "files")}
    /\ cache_calls = <<>>
    /\ cached_data = NoData
    /\ inv \in [Invocations ->
                   {Invocation("set", k, <<>>) : k \in CacheKeys}]

\* lines 49-53
SetData(p) ==
    /\ pc = "add_data" /\ inv[p].at = "set"
    /\ \E content \in CachedContents :
          memcache' = [memcache EXCEPT ![get_cache_id(inv[p].param_string)] =
                                           json_dumps(content, "files")]
    /\ log_msgs' = Append(log_msgs, AddDataLogs[1])
    /\ inv' = [inv EXCEPT ![p].at = "read"]
    /\ UNCHANGED <<pc, exc, requests, debug, cache_calls, cached_data, durVars,
                   dlVars, mainVars, vodVars, pageVars, routeVars, liveVars, listVars>>

\* lines 56-57
ReadIndex(p) ==
    /\ pc = "add_data" /\ inv[p].at = "read"
    /\ inv' = [inv EXCEPT ![p].at = "write",
                          ![p].cache_id_list = memcache[get_cache_key].text]
    /\ UNCHANGED <<commonVars, memcache, cache_calls, cached_data, durVars,
                   dlVars, mainVars, vodVars, pageVars, routeVars, liveVars, listVars>>

\* lines 58-60
WriteIndex(p) ==
    /\ pc = "add_data" /\ inv[p].at = "write"
    /\ memcache' =
         [memcache EXCEPT ![get_cache_key] =
             CsvText(IndexAppend(ListToExtend(inv[p].cache_id_list,
                                              memcache[get_cache_key].text),
                                 get_cache_id(inv[p].param_string)))]
    /\ log_msgs' = Append(log_msgs, AddDataLogs[2])
    /\ inv' = [inv EXCEPT ![p].at = "done"]
    /\ cache_calls' = Append(cache_calls, CacheCall("add_data", inv[p].param_string))
    /\ UNCHANGED <<pc, exc, requests, debug, cached_data, durVars, dlVars,
                   mainVars, vodVars, pageVars, routeVars, liveVars, listVars>>

\* a later invocation clears the cache
EraseAfterwards ==
    /\ pc = "add_data" /\ \A p \in Invocations : inv[p].at = "done"
    /\ memcache' = erase(memcache)
    /\ cache_calls' = Append(cache_calls, CacheCall("erase", ""))
    /\ pc' = "erased"
    /\ UNCHANGED <<exc, requests, log_msgs, debug, cached_data, inv, durVars,
                   dlVars, mainVars, vodVars, pageVars, routeVars, liveVars, listVars>>

NextCacheRace ==
    \/ \E p \in Invocations : SetData(p) \/ ReadIndex(p) \/ WriteIndex(p)
    \/ EraseAfterwards

SpecCacheRace == InitCacheRace /\ [][NextCacheRace]_vars

\* ------------------------------------------------ router.addon_areena_main
\* One invocation of the addon after another, the window of the cache shared
\* by all of them. requests, log_msgs, cache_calls and listings hold the
\* calls of the invocation that is running.
ClearCacheParams == "type=clear_cache"
AddonCalls == ParamStrings \cup {ClearCacheParams}

\* line 53: dict(parse_qsl(param_string)), for the strings of the model
parse_qsl(ps) ==
    CASE ps = SubcategoryParams ->
            [type |-> "subcategory", yle_id |-> EmptyStr, api_tok |-> "t",
             offset |-> "0", count |-> "150"]
      [] ps = SeriesParams ->
            [type |-> "series", yle_id |-> <<"1", "-", "5">>, api_tok |-> "",
             offset |-> "0", count |-> "2000"]
      [] ps = CategoryParams ->
            [type |-> "category", yle_id |-> <<"/", "t", "v">>, api_tok |-> "",
             offset |-> "0", count |-> "2000"]
      [] ps = ClearCacheParams ->
            [type |-> "clear_cache", yle_id |-> EmptyStr, api_tok |-> "",
             offset |-> "0", count |-> "2000"]

\* lines 160-161: int() of the decimal strings of the model
int(digits) ==
    CASE digits = "0" -> 0
      [] digits = "150" -> 150
      [] digits = "2000" -> 2000

\* line 65: the events that list remote content
RemoteListEvents ==
    {"category", "package", "subcategory", "alphabetical", "series", "results"}

\* lines 151-180: list_type of the event
ListType(event_type) ==
    CASE event_type \in {"category", "package"} -> "files"
      [] event_type = "subcategory" -> "movies"
      [] event_type \in {"alphabetical", "results"} -> "videos"
      [] event_type = "series" -> "episodes"

\* lines 183 and 189: locale + param_string, what the listing is cached under
cache_param_string_AnyLocale(locale, param_string) == "fi" \o param_string
cache_param_string(locale, param_string) == locale \o param_string

\* kodi.create_listing(content, content_type)
create_listing(content, content_type) ==
    [content |-> content, content_type |-> content_type]

\* lengths of the list the server holds for a subcategory
ServerTotals == {0, 120, MaxTotal}

\* what yle.get_root_categories makes of the page of /tv
RootCategoryLists == CachedContents

InitListing ==
    /\ IdleDur /\ IdleDl /\ IdleVod /\ IdlePage /\ IdleRoute /\ IdleLive
    /\ exc = "" /\ requests = <<>> /\ log_msgs = <<>> /\ debug = FALSE
    /\ entries = <<>> /\ categories = <<>> /\ listing = NoListing
    /\ jwt_url = EmptyStr /\ api_tok = None /\ show_clips = "true"
    /\ seasons = <<>> /\ payload = <<>>
    /\ pc = "main"
    /\ main_params \in AddonCalls
    /\ main_locale \in Locales
    /\ memcache = EmptyWindow
    /\ cache_calls = <<>> /\ cached_data = NoData /\ inv = NoInvocations
    /\ listings = <<>> /\ fetched_keys = {} /\ served = 0

\* lines 53-66 and try_cache, lines 187-197; on a miss show_remote_list
\* starts, lines 149-176, up to the call that fetches the content
TryCache ==
    /\ pc = "main"
    /\ parse_qsl(main_params).type \in RemoteListEvents
    /\ \E params \in {parse_qsl(main_params)} :
       \E key \in {cache_param_string(main_locale, main_params)} :
       \E found \in {get_data(memcache, key)} :
          /\ cached_data' = found
          /\ cache_calls' = Append(cache_calls, CacheCall("get_data", key))
          /\ log_msgs' = log_msgs \o <<Log("Performing action", <<>>),
                                       Log("Cache data exists", <<>>)>>
          /\ IF ~found.none
             THEN /\ listings' =
                        Append(listings,
                               create_listing(found.content, found.content_type))
                  /\ pc' = "ended"
                  /\ UNCHANGED <<yle_id, arg_offset, arg_total, offset, total,
                                 server_total>>
             ELSE /\ listings' = listings
                  /\ CASE params.type = "subcategory" ->
                            /\ pc' = "page"
                            /\ arg_offset' = int(params.offset)
                            /\ arg_total' = int(params.count)
                            /\ offset' = int(params.offset)
                            /\ total' = int(params.count)
                            /\ server_total' \in ServerTotals
                            /\ yle_id' = yle_id
                       [] params.type = "series" ->
                            /\ pc' = "episodes"
                            /\ yle_id' = params.yle_id
                            /\ UNCHANGED <<arg_offset, arg_total, offset, total,
                                           server_total>>
                       [] params.type = "category" ->
                            /\ pc' = "category"
                            /\ yle_id' = params.yle_id
                            /\ UNCHANGED <<arg_offset, arg_total, offset, total,
                                           server_total>>
    /\ UNCHANGED <<exc, requests, debug, memcache, inv, ctx, durVars, dlVars,
                   main_params, main_locale, fetched_keys, served,
                   arg_kaltura_id, kaltura_id, mode, manifest, stream_format,
                   subs, hls_res, mpd_res, vod_result,
                   routeVars, liveVars, listVars>>

\* lines 68-69 and do_command, lines 97-99: the command clear_cache
ClearCache ==
    /\ pc = "main"
    /\ parse_qsl(main_params).type = "clear_cache"
    /\ memcache' = erase(memcache)
    /\ cache_calls' = Append(cache_calls, CacheCall("erase", ""))
    /\ log_msgs' = Append(log_msgs, Log("Performing action", <<>>))
    /\ fetched_keys' = {}
    /\ pc' = "ended"
    /\ UNCHANGED <<exc, requests, debug, cached_data, inv, durVars, dlVars,
                   main_params, main_locale, listings, served,
                   vodVars, pageVars, routeVars, liveVars, listVars>>

\* get_category, lines 200-208, for the path /tv
FetchCategory ==
    /\ pc = "category"
    /\ \E content \in RootCategoryLists :
          ctx' = content
    /\ requests' = Append(requests, Req("category", yle_id, 0, 0))
    /\ log_msgs' = log_msgs \o UrlLogs
    /\ pc' = "done"
    /\ UNCHANGED <<extVars, exc, debug, arg_offset, arg_total, offset, total,
                   server_total, vodVars, routeVars, liveVars, listVars>>

\* line 203: get_url_response raises
CategoryRequestFails ==
    /\ pc = "category"
    /\ requests' = Append(requests, Req("category", yle_id, 0, 0))
    /\ log_msgs' = log_msgs \o UrlLogs
    /\ exc' = "HTTPError"
    /\ pc' = "error"
    /\ UNCHANGED <<extVars, debug, pageVars, vodVars, routeVars, liveVars,
                   listVars>>

\* the call that fetches the content has returned it
ContentReturned_AfterError == pc \in {"done", "error"}
ContentReturned == pc = "done"

\* lines 182-184: the content is logged, stored and listed
ShowRemoteList ==
    /\ ContentReturned
    /\ parse_qsl(main_params).type \in RemoteListEvents
    /\ \E list_type \in {ListType(parse_qsl(main_params).type)} :
       \E key \in {cache_param_string(main_locale, main_params)} :
          /\ memcache' = add_data(memcache, key, ctx, list_type)
          /\ listings' = Append(listings, create_listing(ctx, list_type))
          /\ cache_calls' = Append(cache_calls, CacheCall("add_data", key))
          /\ fetched_keys' = fetched_keys \cup {key}
    /\ log_msgs' = log_msgs \o <<Log("Content list", <<>>)>> \o AddDataLogs
    /\ pc' = "ended"
    /\ UNCHANGED <<exc, requests, debug, cached_data, inv, durVars, dlVars,
                   main_params, main_locale, served,
                   vodVars, pageVars, routeVars, liveVars, listVars>>

\* the invocation has ended, by returning or by the exception nothing catches
InvocationOver == pc \in {"ended", "error"}

\* Kodi invokes the addon again: another param_string, the language setting
\* read again; the window of the cache is the one the last invocation left
NextInvocation ==
    /\ InvocationOver
    /\ served + 1 < MaxInvocations
    /\ served' = served + 1
    /\ main_params' \in AddonCalls
    /\ main_locale' \in Locales
    /\ pc' = "main"
    /\ exc' = "" /\ requests' = <<>> /\ log_msgs' = <<>>
    /\ cache_calls' = <<>> /\ cached_data' = NoData /\ listings' = <<>>
    /\ arg_offset' = 0 /\ arg_total' = 0 /\ offset' = 0 /\ total' = 0
    /\ ctx' = <<>> /\ server_total' = 0
    /\ yle_id' = EmptyStr
    /\ listing' = NoListing /\ jwt_url' = EmptyStr /\ api_tok' = None
    /\ seasons' = <<>> /\ payload' = <<>>
    /\ UNCHANGED <<debug, memcache, inv, fetched_keys, durVars, dlVars,
                   arg_kaltura_id, kaltura_id, mode, manifest, stream_format,
                   subs, hls_res, mpd_res, vod_result,
                   routeVars, liveVars, entries, categories, show_clips>>

NextListing ==
    \/ TryCache
    \/ ClearCache
    \/ FetchPage
    \/ PageRequestFails
    \/ ReturnCtx
    \/ EpisodesPageFails
    \/ GetSeasonIds
    \/ SeasonRequestFails
    \/ FetchSeason
    \/ ReturnEpisodes
    \/ FetchCategory
    \/ CategoryRequestFails
    \/ ShowRemoteList
    \/ NextInvocation

SpecListing == InitListing /\ [][NextListing]_vars

\* --------------------------------------------------------------- claims
Range(f) == {f[i] : i \in DOMAIN f}
Calls(api) == {i \in 1..Len(requests) : requests[i].api = api}
Finished == pc \in {"done", "error"}

\* C1: within one get_vod_stream_manifest request the yle resolver is called
\* exactly once when the passed kaltura id is empty and never when one is
\* passed; the kaltura resolver is called at most once, and exactly when a
\* kaltura id was passed or came back from the yle call; the yle call comes
\* first and no resolver is called twice, also after a failure.
C1_ResolverCalls ==
    /\ Cardinality(Calls("preview")) <= 1
    /\ Cardinality(Calls("multirequest")) <= 1
    /\ Len(requests) = Cardinality(Calls("preview")) + Cardinality(Calls("multirequest"))
    /\ ~Falsy(arg_kaltura_id) => Calls("preview") = {}
    /\ (Finished /\ Falsy(arg_kaltura_id)) => Cardinality(Calls("preview")) = 1
    /\ Calls("multirequest") # {} =>
          \/ ~Falsy(arg_kaltura_id) /\ kaltura_id = arg_kaltura_id
          \/ /\ hls_res.answered
             /\ get_stream_manifest(hls_res).route.raised = ""
             /\ kaltura_id = get_stream_manifest(hls_res).route.value
             /\ ~Falsy(kaltura_id)
    /\ Finished =>
          (Calls("multirequest") # {} <=>
              \/ ~Falsy(arg_kaltura_id)
              \/ /\ hls_res.answered
                 /\ get_stream_manifest(hls_res).route.raised = ""
                 /\ ~Falsy(get_stream_manifest(hls_res).route.value))
    /\ \A i \in Calls("preview") : \A j \in Calls("multirequest") : i < j
    /\ \A j \in Calls("multirequest") : requests[j].id = kaltura_id

\* C1 witness: both resolvers were called, the kaltura call failed, and the
\* request is over with one call each.
C1_Witness ==
    /\ pc = "error" /\ exc = "HTTPError"
    /\ Cardinality(Calls("preview")) = 1
    /\ Cardinality(Calls("multirequest")) = 1

\* urls of the sources of the kaltura response, as the mode delivers them
SecondaryUrls ==
    {IF mode = "download" /\ mpd_res.sources[i].url # None
     THEN StripFlavors(mpd_res.sources[i].url)
     ELSE mpd_res.sources[i].url : i \in 1..Len(mpd_res.sources)}

PrimaryShape ==
    IF hls_res.ongoing_ondemand.populated THEN hls_res.ongoing_ondemand
    ELSE hls_res.ongoing_event

\* C2: when a kaltura id is known (passed in or returned by the yle api) the
\* returned manifest is one of the kaltura response and the format is "mpd";
\* when none is known the result is the yle manifest with format "hls".
C2_SecondarySupersedes ==
    vod_result.returned =>
        IF ~Falsy(kaltura_id)
        THEN /\ vod_result.stream_format = "mpd"
             /\ mpd_res.answered
             /\ vod_result.manifest \in SecondaryUrls
        ELSE /\ vod_result.stream_format = "hls"
             /\ hls_res.answered /\ ~mpd_res.answered
             /\ vod_result.manifest = PrimaryShape.manifest_url

\* C2 witness: the yle api returned a manifest and a kaltura id, and the
\* result is the kaltura manifest.
C2_Witness ==
    /\ vod_result.returned
    /\ hls_res.answered /\ PrimaryShape.manifest_url = UrlHls
    /\ Falsy(arg_kaltura_id) /\ ~Falsy(kaltura_id)
    /\ vod_result.manifest = UrlMpdPlain
    /\ vod_result.stream_format = "mpd"

KnownHosts == {Host29, Host55, Host67}

\* the yle api answered with a non-empty media id of an unknown provider
UnknownPrefix ==
    /\ hls_res.answered
    /\ ~Falsy(PrimaryShape.media_id)
    /\ Split(PrimaryShape.media_id, "-")[1] \notin KnownHosts

C10_NoMatchFails ==
    (mpd_res.answered /\ Matching(mpd_res.sources, mode) = {}) =>
        /\ pc = "error" /\ exc # ""
        /\ ~vod_result.returned

\* C10 witness: the response holds sources, none of the mode's profile.
C10_Witness ==
    /\ mpd_res.answered /\ Len(mpd_res.sources) >= 1
    /\ \A i \in 1..Len(mpd_res.sources) : mpd_res.sources[i].url = UrlMpdPlain
    /\ Matching(mpd_res.sources, mode) = {}
    /\ exc = "StopIteration"

\* index of the source get_hd_mpd_stream_manifest must pick in mode md: the
\* first one, in response order, with the profile id fixed for md
FirstOfProfile(md) ==
    LET want == CASE md = "live" -> 16231
                  [] md = "download" -> 14441
                  [] md = "vod" -> 14471
        S == {i \in 1..Len(mpd_res.sources) :
                 mpd_res.sources[i].deliveryProfileId = want}
    IN IF S = {} THEN 0 ELSE CHOOSE i \in S : \A j \in S : i <= j

\* C9: in each mode get_hd_mpd_stream_manifest returns the url of the first
\* source whose deliveryProfileId is the mode's constant (live 16231, download
\* 14441, vod 14471), never one of another profile; in vod and live mode the
\* url is returned as it is, in download mode with its flavors stripped.
C9_SelectsModeProfile ==
    LET i == FirstOfProfile(mode)
    IN /\ pc = "done" =>
            /\ i # 0
            /\ manifest = IF mode = "download"
                          THEN StripFlavors(mpd_res.sources[i].url)
                          ELSE mpd_res.sources[i].url
       /\ (pc = "error" /\ mpd_res.has_sources /\ i # 0) =>
            (mode = "download" /\ mpd_res.sources[i].url = None)

\* C9 witness: vod mode, a download source first and the vod source second;
\* the url of the second comes back with all its flavors.
C9_Witness ==
    /\ pc = "done" /\ mode = "vod"
    /\ Len(mpd_res.sources) = 2
    /\ mpd_res.sources[1].deliveryProfileId = 14441
    /\ mpd_res.sources[1].url = UrlMpdPlain
    /\ mpd_res.sources[2].deliveryProfileId = 14471
    /\ manifest = UrlMpdFlavors

RECURSIVE SumLimits(_)
SumLimits(n) == IF n = 0 THEN 0 ELSE requests[n].limit + SumLimits(n - 1)

\* C3: get_extended_content terminates for every starting offset, every
\* requested total >= 0 and every sequence of counts >= 0 the server reports,
\* provided each page request returns: every page makes the remaining total
\* strictly smaller, and the loop is left.
C3_Terminates ==
    /\ [][requests' # requests => (total > 0 /\ total' < total)]_vars
    /\ <>(pc = "done")

\* C3 witness: more was requested than the server ever held, three pages were
\* fetched and the function has returned.
C3_Witness ==
    /\ pc = "done" /\ Len(requests) = 3
    /\ arg_total = MaxTotal /\ Len(ctx) < arg_total

\* C4 as stated: the number of records returned is min(requested_total,
\* server_total), whatever the starting offset.
C4_Original ==
    pc = "done" => Len(ctx) = Min(arg_total, server_total)

\* C4: with a server that answers each (limit, offset) query with the items it
\* holds in that range and reports server_total, the records returned are the
\* items from the starting offset on, min(requested_total, server_total -
\* offset) of them (none when the offset is past the end); with starting
\* offset 0 that is min(requested_total, server_total).
C4_ReturnsMin ==
    pc = "done" =>
        /\ Len(ctx) = Min(arg_total, Max(server_total - arg_offset, 0))
        /\ \A i \in 1..Len(ctx) : ctx[i] = arg_offset + i - 1
        /\ arg_offset = 0 => Len(ctx) = Min(arg_total, server_total)

\* C4 witness: three pages from a starting offset above 0; the records
\* returned are fewer than min(requested_total, server_total).
C4_Witness ==
    /\ pc = "done" /\ arg_offset > 0 /\ Len(requests) = 3
    /\ Len(ctx) = server_total - arg_offset
    /\ Len(ctx) < Min(arg_total, server_total)

\* C5 as stated: with server total 0 no page is fetched, even though the
\* requested total is positive.
C5_Original ==
    (server_total = 0 \/ arg_total = 0) => Len(requests) = 0

\* C5: with requested total 0 no page is fetched; with server total 0 and a
\* positive requested total exactly one page is fetched (the count is only
\* known from its response), it holds no record, and the loop ends there.
C5_OnePageWhenEmpty ==
    /\ arg_total = 0 => Len(requests) = 0
    /\ server_total = 0 => (Len(requests) <= 1 /\ ctx = <<>>)
    /\ (server_total = 0 /\ arg_total > 0 /\ Finished) => Len(requests) = 1

\* C5 witness: empty server, more than one page requested, one page fetched.
C5_Witness ==
    /\ pc = "done" /\ server_total = 0 /\ arg_total > PageSize
    /\ Len(requests) = 1

\* C6: every page query has limit min(remaining total, 100), so in 1..100, and
\* offset = starting offset + the limits of all earlier queries: the offset
\* advances by what was requested, not by what the server returned.
C6_LimitsAndOffsets ==
    /\ [](\A i \in 1..Len(requests) :
            /\ requests[i].limit \in 1..100
            /\ requests[i].offset = arg_offset + SumLimits(i - 1))
    /\ [][requests' # requests =>
            requests' = Append(requests,
                               Req("content", EmptyStr, Min(total, 100), offset))]_vars

\* C6 witness: the first page came back one item short of its limit and the
\* second query still starts a full limit further.
C6_Witness ==
    /\ Len(requests) = 2
    /\ requests[1].limit = PageSize
    /\ Len(ctx) = PageSize - 1
    /\ requests[2].offset = arg_offset + PageSize

\* string.startswith(prefix)
StartsWith(string, prefix) ==
    Len(string) >= Len(prefix) /\ SubSeq(string, 1, Len(prefix)) = prefix

Prefix29 == <<"2", "9", "-">>
Prefix55 == <<"5", "5", "-">>
Prefix67 == <<"6", "7", "-">>

\* C7: a media id with prefix 29 is routed to the secondary provider with the
\* whole remainder of the id after the prefix as secondary id ("29-xyz" gives
\* "xyz"); a media id with prefix 55 or 67 gives the empty secondary id.
C7_RoutingByPrefix ==
    (pc \in {"done", "error"} /\ media_data # None) =>
        /\ StartsWith(media_data, Prefix29) =>
              (pc = "done" /\ media_id = SliceFrom(media_data, Len(Prefix29)))
        /\ (StartsWith(media_data, Prefix55) \/ StartsWith(media_data, Prefix67)) =>
              (pc = "done" /\ media_id = EmptyStr)

\* str.join
RECURSIVE Join(_, _)
Join(parts, sep) ==
    IF Len(parts) = 0 THEN <<>>
    ELSE IF Len(parts) = 1 THEN parts[1]
    ELSE parts[1] \o <<sep>> \o Join(Tail(parts), sep)

\* the url with, in every path segment, only the last of its comma-separated
\* tokens kept
KeepLastFlavor(u) ==
    LET segs == Split(u, "/")
    IN Join([i \in 1..Len(segs) |->
                LET toks == Split(segs[i], ",") IN toks[Len(toks)]], "/")

\* every token of a comma-separated list in u starts with a digit
NumericFlavors(u) ==
    LET segs == Split(u, "/")
    IN \A i \in 1..Len(segs) :
          LET toks == Split(segs[i], ",")
          IN Len(toks) > 1 =>
                \A k \in 1..Len(toks) : toks[k] # <<>> /\ toks[k][1] \in Digits

\* C11: in download mode the url returned is the matching source's url with
\* every comma-terminated flavor token removed, so that only the last token of
\* the list stays, and the rest of the url as it was; the flavor tokens are
\* the tokens of a comma-separated list, each starting with a digit.
C11_StripsAllButLast ==
    (pc = "done" /\ mode = "download"
        /\ NumericFlavors(mpd_res.sources[1].url)) =>
        manifest = KeepLastFlavor(mpd_res.sources[1].url)

\* C12: get_vod_stream_manifest returns a non-empty subtitle map only in
\* download mode and only from the kaltura resolver, where it is the map
\* get_subtitles builds from the captions; in vod mode the captions of the
\* response are not read: a response with a source of the vod profile is
\* returned whatever its captions are, with the map None, and the map of a
\* result that came from the yle resolver alone is empty.
C12_SubsOnlyInDownload ==
    /\ (vod_result.returned /\ vod_result.subs.items # {}) =>
          /\ mode = "download"
          /\ mpd_res.answered /\ vod_result.stream_format = "mpd"
          /\ vod_result.subs = get_subtitles(mpd_res).value
    /\ (vod_result.returned /\ mode = "vod") =>
          vod_result.subs \in {SubsNone, SubsDict({})}
    /\ (mode = "vod" /\ mpd_res.answered /\ Matching(mpd_res.sources, "vod") # {}) =>
          /\ pc = "done" /\ exc = ""
          /\ vod_result.returned /\ vod_result.subs = SubsNone
    /\ (vod_result.returned /\ ~mpd_res.answered) =>
          vod_result.subs = SubsDict({})

\* C12 witness: vod mode, the kaltura response carries a caption without url
\* (get_subtitles would fail on it), and the manifest is returned with the
\* subtitle map None.
C12_Witness ==
    /\ mode = "vod" /\ vod_result.returned
    /\ mpd_res.answered /\ mpd_res.playbackCaptions = <<CaptionNoUrl>>
    /\ vod_result.manifest = UrlMpdPlain
    /\ vod_result.subs = SubsNone

\* the secondary id of the answer of the yle preview api, "" when there is
\* none or the routing failed
SecondaryId ==
    IF hls_res.answered /\ get_stream_manifest(hls_res).route.raised = ""
    THEN get_stream_manifest(hls_res).route.value
    ELSE EmptyStr

\* C13: for the channel "yle-areena" the live player api is asked first, the
\* yle resolver is called with the media id it answered, and when the yle
\* resolver returns a secondary id the kaltura resolver is called with that id
\* and the manifest returned is the kaltura one.
C13_LiveRunsBothSteps ==
    (pc = "done" /\ yle_id = YleAreena) =>
        /\ Len(requests) >= 2
        /\ requests[1] = Req("players", YleAreena, 0, 0)
        /\ requests[2] = Req("preview", live_res.id, 0, 0)
        /\ ~Falsy(SecondaryId) =>
              /\ Len(requests) = 3
              /\ requests[3] = Req("multirequest", SecondaryId, 0, 0)
              /\ live_result.manifest # PrimaryShape.manifest_url

\* C14: get_vod_stream_manifest and get_live_stream_manifest never return a
\* result without a manifest url: a yle answer with neither shape populated,
\* or whose populated shape has no manifest_url, ends the request in an error.
C14_NoAbsentManifest ==
    /\ vod_result.returned => vod_result.manifest # None
    /\ live_result.returned => live_result.manifest # None
    /\ (hls_res.answered /\ ~mpd_res.answered
           /\ PrimaryShape.manifest_url = None) => pc # "done"

\* position of a label in the ordering table, 0 when it is not there
TablePos(name) ==
    IF \E p \in 1..Len(alphabet) : alphabet[p] = name
    THEN CHOOSE p \in 1..Len(alphabet) : alphabet[p] = name
    ELSE 0

RECURSIVE CountsBefore(_, _)
CountsBefore(items, k) ==
    IF k <= 1 THEN 0 ELSE items[k - 1].count + CountsBefore(items, k - 1)

\* the name and count of every record of a list
Buckets(items) == [i \in 1..Len(items) |-> <<items[i].name, items[i].count>>]

Bucket(key, count) ==
    [has_key |-> TRUE, key |-> key, has_count |-> TRUE, count |-> count]

\* C15: the list returned by the alphabetical sequencer holds the input
\* buckets, each as often as in the input, in the order of their labels in the
\* ordering table (buckets of one label in input order), and the offset of
\* each record is the sum of the counts of the records before it in that
\* order, 0 for the first: {B: 3, A: 2, 0-9: 1} gives 0-9, A, B with offsets
\* 0, 1, 3.
C15_SortedWithOffsets ==
    pc = "done" =>
        LET out == listing.items
            in == [i \in 1..Len(entries) |-> AlphaRecord(entries[i])]
        IN /\ listing.returned /\ Len(out) = Len(in)
           /\ \A b \in Range(Buckets(in)) \cup Range(Buckets(out)) :
                 Cardinality({i \in 1..Len(in) : Buckets(in)[i] = b})
                 = Cardinality({i \in 1..Len(out) : Buckets(out)[i] = b})
           /\ \A i, j \in 1..Len(out) :
                 i < j => TablePos(out[i].name) <= TablePos(out[j].name)
           /\ \A n \in {out[i].name : i \in 1..Len(out)} :
                 SelectSeq(Buckets(out), LAMBDA b : b[1] = n)
                 = SelectSeq(Buckets(in), LAMBDA b : b[1] = n)
           /\ \A k \in 1..Len(out) :
                 out[k].has_offset /\ out[k].offset = CountsBefore(out, k)
           /\ entries = <<Bucket("B", 3), Bucket("A", 2), Bucket("0-9", 1)>> =>
                 /\ [k \in 1..3 |-> out[k].name] = <<"0-9", "A", "B">>
                 /\ [k \in 1..3 |-> out[k].offset] = <<0, 1, 3>>

\* C15 witness: the buckets B: 3, A: 2, 0-9: 1 were sorted and given their
\* offsets.
C15_Witness ==
    /\ pc = "done"
    /\ entries = <<Bucket("B", 3), Bucket("A", 2), Bucket("0-9", 1)>>
    /\ Len(listing.items) = 3 /\ listing.items[3].offset = 3

\* an entry of the response has a label that is not in the ordering table
UnknownLabel ==
    \E i \in 1..Len(entries) : TablePos(AlphaRecord(entries[i]).name) = 0

\* C16: if the label of any bucket is not in the ordering table, the empty
\* label of an entry without key included, the alphabetical sequencer ends in
\* an error: no list is returned and no record has been given an offset; with
\* every label in the table it does not fail.
C16_UnknownLabelFails ==
    /\ (pc # "alpha" /\ UnknownLabel) =>
          /\ pc = "error" /\ exc = "ValueError"
          /\ ~listing.returned
          /\ \A i \in 1..Len(categories) : ~categories[i].has_offset
    /\ (pc # "alpha" /\ ~UnknownLabel) => pc = "done"

\* C16 witness: two buckets of the table, then an entry without key; the
\* request has failed.
C16_Witness ==
    /\ pc = "error"
    /\ Len(entries) = 3
    /\ entries[1] = Bucket("B", 3) /\ entries[2] = Bucket("A", 2)
    /\ ~entries[3].has_key
    /\ Len(categories) = 3

\* the places where the marker token= stands in the url, counted from 1
MarkerAt == {i \in 1..(Len(jwt_url) - Len(TokenWord) + 1) :
                SubSeq(jwt_url, i, i + Len(TokenWord) - 1) = TokenWord}

\* C17: for every url string extract_token returns without raising; when the
\* marker token= occurs, the result is the text after its first occurrence,
\* unchanged; when it does not occur, the result is the marker-absent value
\* (empty, or -1), never a piece of the url.
C17_TokenOrNothing ==
    (pc # "token" /\ jwt_url # None) =>
        /\ pc = "done"
        /\ MarkerAt # {} =>
              \E i \in MarkerAt :
                 /\ \A j \in MarkerAt : i <= j
                 /\ api_tok = SubSeq(jwt_url, i + Len(TokenWord), Len(jwt_url))
        /\ MarkerAt = {} => api_tok \in {EmptyStr, <<"-", "1">>, None}

\* the image field is missing, null, of a wrong type, or lacks a key
ImageMalformed(image) ==
    image.kind # "dict" \/ ~image.has_version \/ ~image.has_id

\* the labels field is missing, null or no list, or an element that is no
\* dict stands in the list with no duration label before it
LabelsMalformed(labels) ==
    \/ labels.kind # "list"
    \/ \E k \in 1..Len(labels.items) :
          /\ ~labels.items[k].is_dict
          /\ \A j \in 1..(k - 1) : labels.items[j].rawType # "duration"

HasBothUris(e) == e.controls = "ok" /\ e.source = "ok"

\* C19: get_sub_categories skips an entry without destination uri or without
\* source uri, with no error, and goes on with the entries after it: for a
\* response whose entries are all dicts the list returned holds exactly the
\* entries with both uris, in input order, each with the last segment of its
\* destination uri as id.
C19_SkipsIncompleteEntries ==
    (pc # "sub" /\ \A k \in 1..Len(entries) : entries[k].is_dict) =>
        LET kept == SelectSeq(entries, HasBothUris)
        IN /\ pc = "done" /\ listing.returned
           /\ Len(listing.items) = Len(kept)
           /\ \A k \in 1..Len(kept) :
                 /\ listing.items[k].name =
                       (IF kept[k].has_title THEN kept[k].title ELSE EmptyStr)
                 /\ listing.items[k].api_data.yle_id =
                       SliceFrom(kept[k].dest_uri, 3)
                 /\ kept[k].source_uri = UriWithToken =>
                       listing.items[k].api_data.api_tok = <<"j", "w">>

\* C19 witness: three entries, the second without source uri; the first and
\* the third are returned.
C19_Witness ==
    /\ pc = "done" /\ Len(entries) = 3
    /\ HasBothUris(entries[1]) /\ entries[1].title = <<"a">>
    /\ entries[2].source = "absent" /\ entries[2].controls = "ok"
    /\ HasBothUris(entries[3]) /\ entries[3].title = <<"b">>
    /\ Len(listing.items) = 2
    /\ listing.items[2].name = <<"b">>

\* the series page was parsed and has no season filters
NoSeasonFilters == pc \in {"seasons", "done"} /\ seasons = <<>>

\* C20: for a series page with no season filters, with clip inclusion
\* requested (show_clips is "true") season discovery gives the one
\* pseudo-season with empty label and empty path and get_episodes issues
\* exactly one episode-list request, with the empty season path; with the
\* show_clips setting off ("false", or not set) it gives no season, no
\* episode-list request is issued and the list returned is empty.
C20_PseudoSeasonOnlyWithClips ==
    /\ (NoSeasonFilters /\ show_clips = "true") =>
          /\ Calls("episodes") = {} => payload = <<PseudoSeason>>
          /\ pc = "done" =>
                /\ Cardinality(Calls("episodes")) = 1
                /\ \A i \in Calls("episodes") : requests[i].id = EmptyStr
    /\ (NoSeasonFilters /\ show_clips # "true") =>
          /\ payload = <<>>
          /\ Calls("episodes") = {}
          /\ pc = "done" => listing = Listing(<<>>)

\* One component of an ISO-8601 duration at the start of s: a number, with a
\* decimal fraction or not, and its designator.
IsoComponent(s, designator) ==
    LET n1 == LeadingDigits(s)
        n2 == IF n1 > 0 /\ Len(s) > n1 + 1 /\ s[n1 + 1] \in {",", "."}
              THEN LeadingDigits(SubSeq(s, n1 + 2, Len(s))) ELSE 0
        n == IF n2 > 0 THEN n1 + 1 + n2 ELSE n1
    IN IF n1 > 0 /\ Len(s) > n /\ s[n + 1] = designator
       THEN [found |-> TRUE, digits |-> SubSeq(s, 1, n1), fraction |-> n2 > 0,
             rest |-> SubSeq(s, n + 2, Len(s))]
       ELSE [found |-> FALSE, digits |-> <<"0">>, fraction |-> FALSE, rest |-> s]

\* The reading of s as an ISO-8601 duration PnYnMnWnDTnHnMnS: at least one
\* component, at least one time component after a T, a decimal fraction in
\* the last component only.
IsoDuration(s) ==
    LET y == IsoComponent(IF s # <<>> THEN Tail(s) ELSE s, "Y")
        m == IsoComponent(y.rest, "M")
        w == IsoComponent(m.rest, "W")
        d == IsoComponent(w.rest, "D")
        timed == d.rest # <<>> /\ d.rest[1] = "T"
        h == IsoComponent(IF timed THEN Tail(d.rest) ELSE d.rest, "H")
        mi == IsoComponent(h.rest, "M")
        sec == IsoComponent(mi.rest, "S")
        all == <<y, m, w, d, h, mi, sec>>
        found == {i \in 1..7 : all[i].found}
    IN [ok |-> /\ s # <<>> /\ s[1] = "P"
               /\ found # {}
               /\ sec.rest = <<>>
               /\ timed <=> (found \cap {5, 6, 7} # {})
               /\ \A i \in found : all[i].fraction => \A j \in found : j <= i,
        integer |-> \A i \in found : ~all[i].fraction,
        total |-> 3600 * ToInt(h.digits) + 60 * ToInt(mi.digits) + ToInt(sec.digits)]

\* C24, first part: for an ISO-8601 duration whose components are all
\* integers get_duration_seconds returns 3600*H + 60*M + S as the text of a
\* float; the year, month, week and day components add nothing, so a duration
\* of date components only gives 0.0.
C24_IntegerDurations ==
    (pc # "duration" /\ stamp # None) =>
        LET iso == IsoDuration(stamp)
        IN (iso.ok /\ iso.integer) =>
              /\ stamp_seconds.returned
              /\ stamp_seconds.value = ToDecimal(iso.total) \o <<".", "0">>

\* C24: the first part, and a string that is no ISO-8601 duration gives the
\* empty value, and the call does not raise.
C24_DurationSeconds ==
    /\ C24_IntegerDurations
    /\ (pc # "duration" /\ stamp # None /\ ~IsoDuration(stamp).ok) =>
          /\ stamp_seconds.returned
          /\ stamp_seconds.value = EmptyStr

\* C25: a download whose resolved stream format is "hls" ends after the
\* failure notification: the only call try_download_video makes is that
\* notification, so the user is not asked about a file name, download_file
\* is not called and no start or success notification is sent.
C25_HlsDownloadEnds ==
    (mode = "download" /\ vod_result.returned /\ StreamNotSupported) =>
        \A i \in 1..Len(effects) : effects[i] = send_notification_download("failed")

\* the ids the master index lists
IndexIds ==
    {<<memcache[get_cache_key].text[i]>> :
        i \in {j \in 1..Len(memcache[get_cache_key].text) :
                  memcache[get_cache_key].text[j] # ","}}

\* the ids that hold data
StoredIds == {get_cache_id(k) : k \in {x \in CacheKeys :
                                          ~IsEmptyText(memcache[get_cache_id(x)])}}

\* C22: after any sequence of add_data and erase calls, one after the other,
\* every id that holds data is listed in the master index, and the ids
\* listed hold data; after erase no property of the cache holds anything, so
\* get_data returns None for every parameter string and the index is empty.
C22_IndexListsEveryKey ==
    pc = "cache" =>
        /\ StoredIds = IndexIds
        /\ (cache_calls # <<>> /\ cache_calls[Len(cache_calls)].op = "erase") =>
              /\ \A n \in PropertyNames : IsEmptyText(memcache[n])
              /\ \A k \in CacheKeys : get_data(memcache, k) = NoData

\* C22 witness: two keys were stored and erase has run.
C22_Witness ==
    /\ pc = "cache"
    /\ Len(cache_calls) = 3
    /\ cache_calls[1] = CacheCall("add_data", "fi" \o SeriesParams)
    /\ cache_calls[2] = CacheCall("add_data", "sv" \o SeriesParams)
    /\ cache_calls[3].op = "erase"
    /\ memcache = EmptyWindow

\* both invocations have left add_data
BothAdded == \A p \in Invocations : inv[p].at = "done"

\* the two invocations read the same list at line 57: neither had written
\* its id when the other read
ReadTheSameList == inv[1].cache_id_list = inv[2].cache_id_list

\* the key an invocation adds was not in the list it read
AddsNewKey(p) ==
    \A i \in 1..Len(inv[p].cache_id_list) :
        <<inv[p].cache_id_list[i]>> # get_cache_id(inv[p].param_string)

\* C26: the index update of add_data is a read, an append and a write that
\* another invocation can come between. Two invocations that add different
\* keys, not cached before, and read the index before either has written it
\* both store their
\* data, but the index lists only the key of the one that wrote last: the
\* other key is stored and missing from the index, and the erase that follows
\* leaves its entry in the cache. When one has written before the other
\* reads, both are listed and erase leaves nothing.
C26_RaceLosesIndexEntry ==
    (pc \in {"add_data", "erased"} /\ BothAdded
     /\ inv[1].param_string # inv[2].param_string
     /\ \A p \in Invocations : AddsNewKey(p)) =>
        LET ids == {get_cache_id(inv[p].param_string) : p \in Invocations}
            last == cache_calls[2].param_string
        IN IF ReadTheSameList
           THEN /\ pc = "add_data" =>
                      /\ ids \subseteq StoredIds
                      /\ ids \cap IndexIds = {get_cache_id(last)}
                /\ pc = "erased" => StoredIds = ids \ {get_cache_id(last)}
           ELSE /\ pc = "add_data" => (ids \subseteq StoredIds /\ ids \subseteq IndexIds)
                /\ pc = "erased" => StoredIds = {}

\* C26 witness: after the two invocations and the erase an entry is still in
\* the cache, and the index is empty.
C26_Witness ==
    /\ pc = "erased"
    /\ StoredIds # {}
    /\ IsEmptyText(memcache[get_cache_key])

\* the invocation that is running asks for a list of remote content
ListingRequest == parse_qsl(main_params).type \in RemoteListEvents
RequestKey == main_locale \o main_params
RequestEntry == memcache[get_cache_id(RequestKey)]
CacheWrites ==
    {i \in 1..Len(cache_calls) : cache_calls[i].op \in {"add_data", "erase"}}

\* C21: a listing request whose locale + parameter string has an entry in
\* the cache ends with one listing, built from the entry, without a network
\* request and without a write to the cache. A request without an entry that
\* ends has requested the content, has stored it under locale + parameter
\* string with the list type of the event and has listed it. The entry is
\* there exactly when the same parameter string was fetched under the same
\* locale since the cache was last erased (or since Kodi started).
C21_CacheBeforeFetch ==
    (ListingRequest /\ pc # "main") =>
        LET list_type == ListType(parse_qsl(main_params).type)
        IN /\ ~cached_data.none =>
                 /\ pc = "ended"
                 /\ requests = <<>>
                 /\ CacheWrites = {}
                 /\ listings = <<create_listing(cached_data.content,
                                                cached_data.content_type)>>
                 /\ RequestEntry = json_dumps(cached_data.content,
                                              cached_data.content_type)
                 /\ cached_data.content_type = list_type
                 /\ RequestKey \in fetched_keys
           /\ (cached_data.none /\ pc = "ended") =>
                 /\ requests # <<>>
                 /\ RequestEntry = json_dumps(ctx, list_type)
                 /\ listings = <<create_listing(ctx, list_type)>>
                 /\ RequestKey \in fetched_keys
           /\ (cached_data.none /\ pc # "ended") =>
                 RequestKey \notin fetched_keys

\* C21 witness: the third invocation is served from the cache, with a list
\* that is not empty, after two listings were fetched and stored.
C21_Witness ==
    /\ ListingRequest /\ pc = "ended" /\ served = 2
    /\ ~cached_data.none /\ cached_data.content # <<>>
    /\ Cardinality(fetched_keys) = 2

NoRepeatedRequest ==
    \A i, j \in 1..Len(requests) : i # j => requests[i] # requests[j]

\* C23: once a call of a listing request has raised, the request stays
\* aborted: no request was sent twice, the fetch has returned no list, the
\* cache was not written (the entry of the request is still missing) and no
\* listing was created.
C23_FailureAborts ==
    (ListingRequest /\ exc # "") =>
        /\ pc = "error"
        /\ NoRepeatedRequest
        /\ listing = NoListing
        /\ CacheWrites = {}
        /\ IsEmptyText(RequestEntry)
        /\ listings = <<>>

\* C23 witness: the request for the second page of a subcategory has failed
\* after the first page gave records.
C23_Witness ==
    /\ parse_qsl(main_params).type = "subcategory"
    /\ pc = "error" /\ exc = "HTTPError"
    /\ Len(requests) = 2 /\ ctx # <<>>

====
